---- MODULE Spec2Model ----
(***************************************************************************)
(* Fantasy racing league (src/app.py): pick validation and storage, the    *)
(* auto-pick assigner, the scoring function and the leaderboard cache      *)
(* builder, modelled as operations on the relational tables of init_db.    *)
(* Tables without a unique constraint (picks, results) are bags of rows.   *)
(* Instants are integers; a round's deadline is an instant.                *)
(***************************************************************************)
EXTENDS Integers, Sequences, FiniteSets, Bags, TLC

VARIABLES
    riders,                 \* table riders: rows [name, class, active], name UNIQUE
    clock,                  \* datetime.now(timezone.utc)
    users,                  \* table users: rows [id, username]
    schedule,               \* table schedule: rows [round, race_date, race_type, class_250]
    picks,                  \* table picks: bag of rows [user_id, round_num, class, rider, auto_random]
    results,                \* table results: bag of rows [round_num, class, rider, position]
    user_round_points,      \* cache table user_round_points (UNIQUE user_id, round_num, class)
    leaderboard_totals,     \* cache table leaderboard_totals (UNIQUE user_id, view_type)
    leaderboard_metadata,   \* cache table leaderboard_metadata (UNIQUE key)
    flash,                  \* the message the last request flashed ("" when none)
    position,               \* scoring function: the finishing positions handed in
    points,                 \* scoring function: the values returned
    conn,                   \* per database connection: the uncommitted writes of its request
    page,                   \* /leaderboard: the last response
    reading,                \* /leaderboard: the request in progress, between two queries
    fetching                \* /admin/fetch-results: the import in progress

vars == <<riders, clock, users, schedule, picks, results, user_round_points,
          leaderboard_totals, leaderboard_metadata, flash, position, points, conn,
          page, reading, fetching>>

(***************************************************************************)
(* Bounds of the model.                                                    *)
(***************************************************************************)
MaxRound == 4       \* rounds 1..MaxRound are on the seeded schedule
MaxClock == 2       \* the clock runs over 0..MaxClock
MaxPos == 100       \* finishing positions 0..MaxPos are scored

(***************************************************************************)
(* Reference data.                                                         *)
(***************************************************************************)
None == "None"      \* Python None / SQL NULL

\* the riders the admin has entered; Ken Roczen is inactive
RiderTable ==
    { [name |-> "Jett Lawrence", class |-> "450",      active |-> TRUE ],
      [name |-> "Eli Tomac",     class |-> "450",      active |-> TRUE ],
      [name |-> "Ken Roczen",    class |-> "450",      active |-> FALSE],
      [name |-> "Haiden Deegan", class |-> "250_West", active |-> TRUE ],
      [name |-> "Tom Vialle",    class |-> "250_East", active |-> TRUE ] }

\* ORDER BY name: the rider names the admin may enter, in ascending order
NameOrder ==
    <<"Aaron Plessinger", "Chase Sexton", "Christian Craig", "Cooper Webb",
      "Dylan Ferrandis", "Eli Tomac", "Haiden Deegan", "Hunter Lawrence",
      "Jason Anderson", "Jett Lawrence", "Justin Barcia", "Justin Cooper",
      "Ken Roczen", "Malcolm Stewart", "Tom Vialle">>

NameRank(name) == CHOOSE i \in 1..Len(NameOrder) : NameOrder[i] = name

\* ORDER BY username: the usernames in ascending order
UsernameOrder == <<"admin", "alice", "bob">>

UsernameRank(name) == CHOOSE i \in 1..Len(UsernameOrder) : UsernameOrder[i] = name

\* the users whose form posts and page loads are enumerated (sessions of user bob)
Players == {2}

\* registered accounts; ids are SERIAL, usernames UNIQUE
UserTable ==
    { [id |-> 1, username |-> "admin"],
      [id |-> 2, username |-> "bob"],
      [id |-> 3, username |-> "alice"] }

CLASSES == <<"450", "250">>

VIEW_TYPES == <<"overall", "supercross", "motocross", "SMX">>

\* the schedule row of round r as the admin form enters it (round >= 1); round r
\* locks after the instant r - 1
ScheduleRow(r) ==
    [ round     |-> r,
      race_date |-> r - 1,
      race_type |-> IF r % 3 = 1 THEN "supercross" ELSE IF r % 3 = 2 THEN "motocross" ELSE "SMX",
      class_250 |-> IF r % 3 = 1 THEN "West" ELSE IF r % 3 = 2 THEN "East" ELSE "Combined" ]

\* what a pick form may carry in rider_450 / rider_250 ("" is the empty selection)
Form450 == {"", "Jett Lawrence", "Eli Tomac", "Ken Roczen"}
Form250 == {"", "Haiden Deegan", "Tom Vialle"}

(***************************************************************************)
(* Table helpers.                                                          *)
(***************************************************************************)
Rows(table) == BagToSet(table)

\* variant: the DELETE is missing
DeleteRowsNone(table, gone) == table

\* DELETE FROM table WHERE row \in gone
DeleteRows(table, gone) == [row \in (DOMAIN table) \ gone |-> table[row]]

\* INSERT INTO table VALUES row
InsertRow(table, row) == table (+) SetToBag({row})

\* SELECT COUNT(*) over the rows of `which`
RECURSIVE CountRows(_, _)
CountRows(table, which) ==
    IF which = {} THEN 0
    ELSE LET row == CHOOSE x \in which : TRUE
         IN  (IF row \in DOMAIN table THEN table[row] ELSE 0)
             + CountRows(table, which \ {row})

Range(seq) == {seq[i] : i \in 1..Len(seq)}

\* the database connections of the requests that may run at the same time
Connections == {1, 2}

\* no /leaderboard response yet
NoPage == [status |-> "none"]

\* no /leaderboard request in progress
NotReading == [active |-> FALSE]

\* no import in progress
NotFetching == [active |-> FALSE]

\* a connection with no request on it
Idle == [active |-> FALSE, flash |-> "", deleted |-> EmptyBag, inserted |-> EmptyBag]

\* sorted(): `keyed` is a sequence of <<key, item>> with integer keys; ascending by
\* key and stable (an entry goes in front of the first entry with a greater key)
RECURSIVE InsertSorted(_, _)
InsertSorted(keyed, x) ==
    IF keyed = <<>> THEN <<x>>
    ELSE IF x[1] < Head(keyed)[1] THEN <<x>> \o keyed
    ELSE <<Head(keyed)>> \o InsertSorted(Tail(keyed), x)

RECURSIVE Sorted(_)
Sorted(keyed) ==
    IF keyed = <<>> THEN <<>>
    ELSE InsertSorted(Sorted(SubSeq(keyed, 1, Len(keyed) - 1)), keyed[Len(keyed)])

\* the items of a keyed sequence
Items(keyed) == [i \in 1..Len(keyed) |-> keyed[i][2]]

\* seq[:n]
Take(seq, n) == IF Len(seq) > n THEN SubSeq(seq, 1, n) ELSE seq

\* [x for x in seq if x in keep]
RECURSIVE Filter(_, _)
Filter(seq, keep) ==
    IF seq = <<>> THEN <<>>
    ELSE IF Head(seq) \in keep THEN <<Head(seq)>> \o Filter(Tail(seq), keep)
    ELSE Filter(Tail(seq), keep)

(***************************************************************************)
(* Deadline resolver and roster queries.                                   *)
(***************************************************************************)
\* SELECT * FROM schedule WHERE round = round_num; fetchone() as a set: {} is None
get_round_info(round_num) == {s \in schedule : s.round = round_num}

\* midnight of the race date in the venue's zone, as an instant; {} is None
get_deadline_for_round(round_num) == {s.race_date : s \in get_round_info(round_num)}

\* SELECT name FROM riders WHERE class = rider_class AND active ORDER BY name
get_riders_by_class(rider_class) ==
    {r.name : r \in {x \in riders : x.class = rider_class /\ x.active}}

get_available_250_riders(round_num) ==
    IF get_round_info(round_num) = {} THEN {}
    ELSE LET class_250 == (CHOOSE s \in get_round_info(round_num) : TRUE).class_250
         IN  IF class_250 = "West" THEN get_riders_by_class("250_West")
             ELSE IF class_250 = "East" THEN get_riders_by_class("250_East")
             ELSE get_riders_by_class("250_West") \cup get_riders_by_class("250_East")

(***************************************************************************)
(* Scoring function.                                                       *)
(***************************************************************************)
get_points_short(pos) ==
    IF pos = 1 THEN 25
    ELSE IF pos = 2 THEN 22
    ELSE IF pos = 3 THEN 20
    ELSE IF pos = 4 THEN 18
    ELSE IF pos >= 5 /\ pos < 20 THEN 22 - pos
    ELSE 0

get_points(pos) ==
    IF pos = 1 THEN 25
    ELSE IF pos = 2 THEN 22
    ELSE IF pos = 3 THEN 20
    ELSE IF pos = 4 THEN 18
    ELSE IF pos >= 5 /\ pos <= 20 THEN 22 - pos
    ELSE 0

(***************************************************************************)
(* Auto-pick ranking.                                                      *)
(***************************************************************************)
\* variant: the CASE expression stops at position 19
case_points_short(pos) ==
    IF pos = 1 THEN 25
    ELSE IF pos = 2 THEN 22
    ELSE IF pos = 3 THEN 20
    ELSE IF pos = 4 THEN 18
    ELSE IF pos >= 5 /\ pos < 20 THEN 22 - pos
    ELSE 0

\* the CASE expression of the ranking query
case_points(pos) ==
    IF pos = 1 THEN 25
    ELSE IF pos = 2 THEN 22
    ELSE IF pos = 3 THEN 20
    ELSE IF pos = 4 THEN 18
    ELSE IF pos >= 5 /\ pos <= 20 THEN 22 - pos
    ELSE 0

\* SUM(CASE ...) over the rows of `which`, each counted as often as it is stored
RECURSIVE SumCasePoints(_, _)
SumCasePoints(table, which) ==
    IF which = {} THEN 0
    ELSE LET row == CHOOSE x \in which : TRUE
         IN  table[row] * case_points(row.position) + SumCasePoints(table, which \ {row})

\* a set of rider names as a list ORDER BY name
OrderedNames(names) == Filter(NameOrder, names)

\* seq[::-1]
Reverse(seq) == [i \in 1..Len(seq) |-> seq[Len(seq) + 1 - i]]

\* the ranking query has GROUP BY and no ORDER BY: its rows come in the order of
\* the plan, by rider name when the groups are sorted and in some other order when
\* they are hashed; two orders are told apart here, ascending and descending
QueryOrders(names) == {OrderedNames(names), Reverse(OrderedNames(names))}

\* variant: the round itself counts
rider_points_through(table, rider, round_num) ==
    SumCasePoints(table, {row \in Rows(table) :
                             row.rider = rider /\ row.round_num <= round_num})

\* SUM(CASE ...) of a rider over the rows of table (the results) of the rounds before
\* round_num
rider_points(table, rider, round_num) ==
    SumCasePoints(table, {row \in Rows(table) :
                             row.rider = rider /\ row.round_num < round_num})

\* [rider for rider, points in sorted_riders if points > 0][:10], sorted_riders being
\* the riders with results by (-points, name)
top_ten_with_points(table, riders_with_results, round_num) ==
    LET sorted_riders ==
            Items(Sorted([i \in 1..Len(riders_with_results) |->
                <<(0 - rider_points(table, riders_with_results[i], round_num))
                      * (Len(NameOrder) + 1)
                      + NameRank(riders_with_results[i]),
                  riders_with_results[i]>>]))
    IN  Take(Filter(sorted_riders,
                    {r \in Range(sorted_riders) : rider_points(table, r, round_num) > 0}), 10)

\* what the function returns once the ranking query has come back with the rows of
\* riders_with_results, in that order
ranked_pool(table, available_riders, riders_with_results, round_num, exclude_riders) ==
    LET top10 == top_ten_with_points(table, riders_with_results, round_num)
        top_riders_with_points == Filter(top10, Range(top10) \ exclude_riders)
        fallback_riders == Filter(riders_with_results,
                                  Range(riders_with_results) \ exclude_riders)
        \* sorted(key=points, reverse=True): stable, equal points keep the query's order
        fallback_sorted ==
            Items(Sorted([i \in 1..Len(fallback_riders) |->
                <<0 - rider_points(table, fallback_riders[i], round_num),
                  fallback_riders[i]>>]))
        fallback_all == Filter(available_riders, Range(available_riders) \ exclude_riders)
    IN  IF top_riders_with_points # <<>> THEN top_riders_with_points
        ELSE IF fallback_riders # <<>> THEN Take(fallback_sorted, 10)
        ELSE fallback_all

\* the lists the function may return over the results of table, one per order of the
\* ranking query's rows
get_top_riders_by_points_with(table, rider_class, round_num, exclude_riders) ==
    LET available_riders ==
            IF rider_class = "250"
            THEN IF get_round_info(round_num) = {} THEN <<>>
                 ELSE OrderedNames(get_available_250_riders(round_num))
            ELSE OrderedNames(get_riders_by_class("450"))
        \* WHERE rider = ANY(available_riders) AND round_num < %s GROUP BY rider
        with_results ==
            {r \in Range(available_riders) :
                \E row \in Rows(table) : row.rider = r /\ row.round_num < round_num}
    IN  IF available_riders = <<>> THEN {<<>>}
        ELSE { ranked_pool(table, available_riders, riders_with_results, round_num,
                           exclude_riders) :
                   riders_with_results \in QueryOrders(with_results) }

\* get_top_riders_by_points(rider_class, round_num, exclude_riders) over the results
\* as they are
get_top_riders_by_points(rider_class, round_num, exclude_riders) ==
    get_top_riders_by_points_with(results, rider_class, round_num, exclude_riders)

\* random.choice(seq) if seq else None
RandomChoice(seq) == IF seq = <<>> THEN {None} ELSE Range(seq)

\* the riders one call of the ranking followed by random.choice may give
RandomTopRider(rider_class, round_num, exclude_riders) ==
    UNION { RandomChoice(top) :
              top \in get_top_riders_by_points(rider_class, round_num, exclude_riders) }

(***************************************************************************)
(* Pick validator and store.                                               *)
(***************************************************************************)
\* variant: the window looks backward only
nearby_rounds_backward(round_num) ==
    {r \in {round_num - 2, round_num - 1} : r > 0}

\* variant: the window reaches one round each way
nearby_rounds_adjacent(round_num) ==
    {r \in {round_num - 1, round_num + 1} : r > 0}

\* [round_num-2, round_num-1, round_num+1, round_num+2] filtered by r > 0
nearby_rounds(round_num) ==
    {r \in {round_num - 2, round_num - 1, round_num + 1, round_num + 2} : r > 0}

\* SELECT rider FROM picks WHERE user_id, class, round_num = ANY(rounds)
PickedRiders(user_id, cls, rounds) ==
    {row.rider : row \in {x \in Rows(picks) :
        x.user_id = user_id /\ x.class = cls /\ x.round_num \in rounds}}

\* the rows of picks for (user_id, round_num)
PickRows(user_id, round_num) ==
    {row \in Rows(picks) : row.user_id = user_id /\ row.round_num = round_num}

PickRow(user_id, round_num, cls, rider, auto_random) ==
    [user_id |-> user_id, round_num |-> round_num, class |-> cls,
     rider |-> rider, auto_random |-> auto_random]

\* existing_picks: class -> (rider, auto_random); with several rows of one class
\* the dict keeps whichever the query returned last, so every outcome is listed
get_existing_picks(table, user_id, round_num) ==
    LET rows == {row \in Rows(table) : row.user_id = user_id /\ row.round_num = round_num}
        classes == {row.class : row \in rows}
    IN  {d \in [classes -> {<<row.rider, row.auto_random>> : row \in rows}] :
            \A cls \in classes :
                \E row \in rows : row.class = cls /\ d[cls] = <<row.rider, row.auto_random>>}

\* variant: each class is inserted on its own
InsertAutoPicksEach(table, user_id, round_num, random_450, random_250) ==
    LET with_450 == IF random_450 # None
                    THEN InsertRow(table, PickRow(user_id, round_num, "450", random_450, 1))
                    ELSE table
    IN  IF random_250 # None
        THEN InsertRow(with_450, PickRow(user_id, round_num, "250", random_250, 1))
        ELSE with_450

\* variant: auto-picks are inserted without the flag
InsertAutoPicksUnflagged(table, user_id, round_num, random_450, random_250) ==
    IF random_450 # None /\ random_250 # None
    THEN InsertRow(InsertRow(table, PickRow(user_id, round_num, "450", random_450, 0)),
                   PickRow(user_id, round_num, "250", random_250, 0))
    ELSE table

\* the two INSERTs of an auto-pick, made only when both classes got a rider
InsertAutoPicks(table, user_id, round_num, random_450, random_250) ==
    IF random_450 # None /\ random_250 # None
    THEN InsertRow(InsertRow(table, PickRow(user_id, round_num, "450", random_450, 1)),
                   PickRow(user_id, round_num, "250", random_250, 1))
    ELSE table

NoWrites(message) == [flash |-> message, deleted |-> EmptyBag, inserted |-> EmptyBag]

\* /pick/<round_num>, GET or POST, for the logged-in user: what the handler may flash
\* and what it writes to picks in its transaction (the rows its DELETE removes, the
\* rows its INSERTs add, both as bags), as the set of its possible runs
pick_writes(user_id, round_num, method, rider_450, rider_250) ==
    IF get_round_info(round_num) = {}
    THEN {NoWrites("Invalid round")}
    ELSE
    LET deadline == get_deadline_for_round(round_num)
        deadline_passed == \E d \in deadline : clock > d
        riders_450 == get_riders_by_class("450")
        riders_250 == get_available_250_riders(round_num)
        existing == PickRows(user_id, round_num)
    IN  IF method = "POST" /\ ~deadline_passed
        THEN IF rider_450 = "" \/ rider_250 = ""
             THEN {NoWrites("Must select one rider from each class")}
             ELSE IF rider_450 \notin riders_450 \/ rider_250 \notin riders_250
             THEN {NoWrites("Invalid rider")}
             ELSE IF rider_450 \in PickedRiders(user_id, "450", nearby_rounds(round_num))
             THEN {NoWrites("Cannot pick the same 450 rider within 3 rounds")}
             ELSE IF rider_250 \in PickedRiders(user_id, "250", nearby_rounds(round_num))
             THEN {NoWrites("Cannot pick the same 250 rider within 3 rounds")}
             ELSE {[flash |-> "Picks saved successfully!",
                    deleted |-> picks (-) DeleteRows(picks, existing),
                    inserted |-> InsertRow(InsertRow(EmptyBag,
                                     PickRow(user_id, round_num, "450", rider_450, 0)),
                                     PickRow(user_id, round_num, "250", rider_250, 0))]}
        ELSE IF deadline_passed /\ existing = {}
        THEN LET excluded_450 == PickedRiders(user_id, "450", nearby_rounds(round_num))
                 excluded_250 == PickedRiders(user_id, "250", nearby_rounds(round_num))
             IN  { [flash |-> IF random_450 # None /\ random_250 # None
                              THEN "No picks submitted - smart auto-picks assigned"
                              ELSE "",
                    deleted |-> EmptyBag,
                    inserted |-> InsertAutoPicks(EmptyBag, user_id, round_num,
                                                 random_450, random_250)]
                   : random_450 \in RandomTopRider("450", round_num, excluded_450),
                     random_250 \in RandomTopRider("250", round_num, excluded_250) }
        ELSE {NoWrites("")}

\* variant: the transaction committed after its DELETE
CommitDeleteOnly(table, writes) == table (-) writes.deleted

\* conn.commit(): the transaction's DELETEs and INSERTs applied to the table
Commit(table, writes) == (table (-) writes.deleted) (+) writes.inserted

\* the handler run alone: what it flashes and leaves in picks
pick_outcomes(user_id, round_num, method, rider_450, rider_250) ==
    { [flash |-> writes.flash, picks |-> Commit(picks, writes)] :
          writes \in pick_writes(user_id, round_num, method, rider_450, rider_250) }

pick(user_id, round_num, method, rider_450, rider_250) ==
    /\ user_id \in {u.id : u \in users}
    /\ \E outcome \in pick_outcomes(user_id, round_num, method, rider_450, rider_250) :
          /\ flash' = outcome.flash
          /\ picks' = outcome.picks
    /\ UNCHANGED <<page, reading, fetching>>
    /\ UNCHANGED <<riders, clock, users, schedule, results, user_round_points,
                   leaderboard_totals, leaderboard_metadata, position, points, conn>>

\* submit_pick: the POST of the pick form
SubmitPick(user_id, round_num, rider_450, rider_250) ==
    pick(user_id, round_num, "POST", rider_450, rider_250)

\* loading the pick page
LoadPickPage(user_id, round_num) ==
    pick(user_id, round_num, "GET", "", "")

(***************************************************************************)
(* Auto-pick sweep.                                                        *)
(***************************************************************************)
\* the pairs (random_450, random_250) the sweep may draw for one user
AutoPickDraws(user_id, round_num) ==
    LET excluded_450 == PickedRiders(user_id, "450", nearby_rounds(round_num))
        excluded_250 == PickedRiders(user_id, "250", nearby_rounds(round_num))
    IN  RandomTopRider("450", round_num, excluded_450)
        \X RandomTopRider("250", round_num, excluded_250)

\* the loop over all_users: each user without picks for the round gets one draw;
\* the set of tables the loop may end with
RECURSIVE AssignAutoPicks(_, _, _)
AssignAutoPicks(table, todo, round_num) ==
    IF todo = {} THEN {table}
    ELSE LET user_id == CHOOSE u \in todo : TRUE
         IN  UNION { AssignAutoPicks(
                         InsertAutoPicks(table, user_id, round_num, draw[1], draw[2]),
                         todo \ {user_id}, round_num)
                     : draw \in AutoPickDraws(user_id, round_num) }

\* variant: the sweep does not look at the picks a user holds
UsersWithOrWithoutPicks(round_num) == {u.id : u \in users}

\* has_picks = COUNT(*) > 0, per user of all_users: the users the sweep serves
UsersWithoutPicks(round_num) ==
    {u.id : u \in {x \in users : CountRows(picks, PickRows(x.id, round_num)) = 0}}

\* variant: the sweep does not look at the deadline
admin_assign_autopicks_writes_anytime(round_num) ==
    IF get_round_info(round_num) = {}
    THEN {NoWrites("Invalid round")}
    ELSE LET no_picks == UsersWithoutPicks(round_num)
         IN  { [flash |-> "Auto-picks assigned", deleted |-> EmptyBag, inserted |-> rows] :
                   rows \in AssignAutoPicks(EmptyBag, no_picks, round_num) }

\* /admin/assign-autopicks/<round_num>: what the sweep may flash and insert
admin_assign_autopicks_writes(round_num) ==
    IF get_round_info(round_num) = {}
    THEN {NoWrites("Invalid round")}
    ELSE LET deadline == get_deadline_for_round(round_num)
         IN  IF \E d \in deadline : clock <= d
             THEN {NoWrites("Deadline has not passed yet. Cannot assign auto-picks.")}
             ELSE LET no_picks == UsersWithoutPicks(round_num)
                  IN  { [flash |-> "Auto-picks assigned", deleted |-> EmptyBag, inserted |-> rows] :
                            rows \in AssignAutoPicks(EmptyBag, no_picks, round_num) }

admin_assign_autopicks(round_num) ==
    /\ \E writes \in admin_assign_autopicks_writes(round_num) :
          /\ flash' = writes.flash
          /\ picks' = Commit(picks, writes)
    /\ UNCHANGED <<page, reading, fetching>>
    /\ UNCHANGED <<riders, clock, users, schedule, results, user_round_points,
                   leaderboard_totals, leaderboard_metadata, position, points, conn>>

(***************************************************************************)
(* Admin deletions.                                                        *)
(***************************************************************************)
\* variant: the cached rows of the round are kept
DeleteRoundKeepingCache(round_num) ==
    /\ get_round_info(round_num) # {}
    /\ results' = DeleteRows(results, {row \in Rows(results) : row.round_num = round_num})
    /\ picks' = DeleteRows(picks, {row \in Rows(picks) : row.round_num = round_num})
    /\ schedule' = {s \in schedule : s.round # round_num}
    /\ flash' = "Round deleted successfully (picks, results, and cache entries removed)!"
    /\ UNCHANGED <<page, reading, fetching>>
    /\ UNCHANGED <<riders, clock, users, user_round_points, leaderboard_totals,
                   leaderboard_metadata, position, points, conn>>

\* /admin/schedule, action=delete, for the schedule row of round round_num
DeleteRound(round_num) ==
    /\ get_round_info(round_num) # {}
    /\ results' = DeleteRows(results, {row \in Rows(results) : row.round_num = round_num})
    /\ picks' = DeleteRows(picks, {row \in Rows(picks) : row.round_num = round_num})
    /\ user_round_points' = {row \in user_round_points : row.round_num # round_num}
    /\ schedule' = {s \in schedule : s.round # round_num}
    /\ flash' = "Round deleted successfully (picks, results, and cache entries removed)!"
    /\ UNCHANGED <<page, reading, fetching>>
    /\ UNCHANGED <<riders, clock, users, leaderboard_totals, leaderboard_metadata, position, points,
                   conn>>

\* /admin/manage-users, action=delete_user, by the admin (user id 1) in session
DeleteUser(user_id) ==
    /\ UNCHANGED <<page, reading, fetching>>
    /\ UNCHANGED <<riders, clock, schedule, results, user_round_points,
                   leaderboard_totals, leaderboard_metadata, position, points, conn>>
    /\ IF user_id = 1
       THEN /\ flash' = "Cannot delete your own admin account!"
            /\ UNCHANGED <<users, picks>>
       ELSE /\ picks' = DeleteRows(picks, {row \in Rows(picks) : row.user_id = user_id})
            /\ users' = {u \in users : u.id # user_id}
            /\ flash' = "User deleted successfully!"

(***************************************************************************)
(* Result entry and result import.                                         *)
(***************************************************************************)
\* what a position field of the results form may carry
FormPositions == {"", "x", "0", "1", "2"}

\* pos_str.isdigit(), over the strings of FormPositions
isdigit(pos_str) == pos_str \in {"0", "1", "2"}

\* int(pos_str)
to_int(pos_str) == IF pos_str = "0" THEN 0 ELSE IF pos_str = "1" THEN 1 ELSE 2

\* the riders of a class whose field carries a position
Entered(form, class_riders) ==
    {rider \in class_riders : form[rider] # "" /\ isdigit(form[rider])}

\* variant: positions are never compared
NoDuplicatePosition(form, class_riders) == FALSE

\* pos in positions_seen, for some rider of the class
DuplicatePosition(form, class_riders) ==
    \E a, b \in Entered(form, class_riders) :
        a # b /\ to_int(form[a]) = to_int(form[b])

\* DELETE FROM results WHERE (round_num, class, rider), then INSERT, per entry
SaveResults(table, round_num, cls, positions) ==
    DeleteRows(table, {row \in Rows(table) : /\ row.round_num = round_num
                                             /\ row.class = cls
                                             /\ row.rider \in DOMAIN positions})
    (+) SetToBag({ [round_num |-> round_num, class |-> cls, rider |-> rider,
                    position |-> positions[rider]] : rider \in DOMAIN positions })

\* POST /admin/<round_num> with the form's position fields (rider name -> string):
\* what the handler flashes and leaves in results
admin_results_outcomes(round_num, form) ==
    IF get_round_info(round_num) = {}
    THEN {[flash |-> "Invalid round", results |-> results]}
    ELSE
    LET riders_450 == get_riders_by_class("450")
        riders_250 == get_available_250_riders(round_num)
        submitted(class_riders) ==
            [rider \in Entered(form, class_riders) |-> to_int(form[rider])]
    IN  IF DuplicatePosition(form, riders_450) \/ DuplicatePosition(form, riders_250)
        THEN {[flash |-> "Duplicate position", results |-> results]}
        ELSE {[flash |-> IF Entered(form, riders_450) \cup Entered(form, riders_250) # {}
                         THEN "Manual results saved"
                         ELSE "No positions were entered. Fill in at least one position to save.",
               results |-> SaveResults(SaveResults(results, round_num, "450",
                                                   submitted(riders_450)),
                                       round_num, "250", submitted(riders_250))]}

\* variant: saving results empties the cached rows and totals
admin_results_clearing(round_num, form) ==
    /\ \E outcome \in admin_results_outcomes(round_num, form) :
          /\ flash' = outcome.flash
          /\ results' = outcome.results
    /\ user_round_points' = {}
    /\ leaderboard_totals' = {}
    /\ UNCHANGED <<page, reading, fetching>>
    /\ UNCHANGED <<riders, clock, users, schedule, picks, leaderboard_metadata, position, points,
                   conn>>

admin_results(round_num, form) ==
    /\ \E outcome \in admin_results_outcomes(round_num, form) :
          /\ flash' = outcome.flash
          /\ results' = outcome.results
    /\ UNCHANGED <<page, reading, fetching>>
    /\ UNCHANGED <<riders, clock, users, schedule, picks, user_round_points, leaderboard_totals,
                   leaderboard_metadata, position, points, conn>>

\* /admin/fetch-results/<round_num>, the results page parsed into results_450 and
\* results_250 (rider -> position; empty when nothing was found)
fetch_results(round_num, results_450, results_250) ==
    /\ IF get_round_info(round_num) = {}
       THEN /\ flash' = "Invalid round"
            /\ UNCHANGED results
       ELSE /\ DOMAIN results_450 \subseteq get_riders_by_class("450")
            /\ DOMAIN results_250 \subseteq get_available_250_riders(round_num)
            /\ results' = SaveResults(SaveResults(results, round_num, "450", results_450),
                                      round_num, "250", results_250)
            /\ flash' = IF DOMAIN results_450 \cup DOMAIN results_250 # {}
                        THEN "Auto-fetch completed"
                        ELSE "No results found"
    /\ UNCHANGED <<page, reading, fetching>>
    /\ UNCHANGED <<riders, clock, users, schedule, picks, user_round_points, leaderboard_totals,
                   leaderboard_metadata, position, points, conn>>

\* the copies that table holds of the rows in rowset
RowsBag(table, rowset) == [row \in rowset \cap Rows(table) |-> table[row]]

\* variant: the class's rows of the round are deleted before the page is parsed
import_writes_clearing(round_num, cls, parsed) ==
    [ deleted  |-> RowsBag(results, {row \in Rows(results) : /\ row.round_num = round_num
                                                              /\ row.class = cls}),
      inserted |-> SetToBag({ [round_num |-> round_num, class |-> cls, rider |-> rider,
                               position |-> parsed[rider]] : rider \in DOMAIN parsed }) ]

\* the import's writes for one class on its open transaction: per rider, DELETE the
\* rows of (round_num, cls, rider), then INSERT the parsed position
import_writes(round_num, cls, parsed) ==
    [ deleted  |-> RowsBag(results, {row \in Rows(results) : /\ row.round_num = round_num
                                                              /\ row.class = cls
                                                              /\ row.rider \in DOMAIN parsed}),
      inserted |-> SetToBag({ [round_num |-> round_num, class |-> cls, rider |-> rider,
                               position |-> parsed[rider]] : rider \in DOMAIN parsed }) ]

\* /admin/fetch-results/<round_num> up to the class loop: get_round_info,
\* get_event_id (a request to the results site; event_id is None when the event is
\* not found), get_db_connection
fetch_results_begin(round_num, event_id) ==
    /\ ~fetching.active
    /\ IF get_round_info(round_num) = {}
       THEN /\ flash' = "Invalid round"
            /\ UNCHANGED fetching
       ELSE /\ fetching' = [ active |-> TRUE, round_num |-> round_num,
                             cls |-> IF event_id # None THEN 1 ELSE Len(CLASSES) + 1,
                             results_450 |-> <<>>, results_250 |-> <<>>,
                             deleted |-> EmptyBag, inserted |-> EmptyBag ]
            /\ UNCHANGED flash
    /\ UNCHANGED <<page, reading>>
    /\ UNCHANGED <<riders, clock, users, schedule, picks, results, user_round_points,
                   leaderboard_totals, leaderboard_metadata, position, points, conn>>

\* one turn of the class loop: get_overall_url and parse_results (requests to the
\* results site; parsed is empty when no URL was found, the request failed or no
\* rider matched), then the DELETEs and INSERTs of the class, not yet committed
fetch_results_class(parsed) ==
    /\ fetching.active
    /\ fetching.cls <= Len(CLASSES)
    /\ LET cls == CLASSES[fetching.cls]
           writes == import_writes(fetching.round_num, cls, parsed)
       IN  /\ DOMAIN parsed \subseteq (IF cls = "450" THEN get_riders_by_class("450")
                                       ELSE get_available_250_riders(fetching.round_num))
           /\ fetching' = [fetching EXCEPT
                  !.cls = @ + 1,
                  !.results_450 = IF cls = "450" THEN parsed ELSE @,
                  !.results_250 = IF cls = "250" THEN parsed ELSE @,
                  !.deleted = @ (+) writes.deleted,
                  !.inserted = @ (+) writes.inserted]
    /\ UNCHANGED <<page, reading>>
    /\ UNCHANGED <<riders, clock, users, schedule, picks, results, user_round_points,
                   leaderboard_totals, leaderboard_metadata, flash, position, points, conn>>

\* conn.commit(), conn.close() and the feedback
fetch_results_commit ==
    /\ fetching.active
    /\ fetching.cls > Len(CLASSES)
    /\ results' = Commit(results, fetching)
    /\ flash' = IF DOMAIN fetching.results_450 \cup DOMAIN fetching.results_250 # {}
                THEN "Auto-fetch completed"
                ELSE "No results found"
    /\ fetching' = NotFetching
    /\ UNCHANGED <<page, reading>>
    /\ UNCHANGED <<riders, clock, users, schedule, picks, user_round_points,
                   leaderboard_totals, leaderboard_metadata, position, points, conn>>

(***************************************************************************)
(* Time.                                                                   *)
(***************************************************************************)
Tick ==
    /\ clock < MaxClock
    /\ clock' = clock + 1
    /\ UNCHANGED <<page, reading, fetching>>
    /\ UNCHANGED <<riders, users, schedule, picks, results, user_round_points, leaderboard_totals,
                   leaderboard_metadata, flash, position, points, conn>>

(***************************************************************************)
(* The pick flow: submissions, page loads, sweeps and admin deletions.     *)
(***************************************************************************)
\* results of round 1 as entered by the admin: a winner per class and a 21st place
SeedResults ==
    SetToBag({ [round_num |-> 1, class |-> "450", rider |-> "Jett Lawrence", position |-> 1],
               [round_num |-> 1, class |-> "450", rider |-> "Eli Tomac", position |-> 21],
               [round_num |-> 1, class |-> "250", rider |-> "Haiden Deegan", position |-> 1] })

Init ==
    /\ riders = RiderTable
    /\ clock = 0
    /\ users = {u \in UserTable : u.id \in {1, 2}}
    /\ schedule = {ScheduleRow(r) : r \in 1..MaxRound}
    /\ picks = EmptyBag
    /\ results = SeedResults
    /\ user_round_points = {}
    /\ leaderboard_totals = {}
    /\ leaderboard_metadata = {}
    /\ flash = ""
    /\ position = <<>>
    /\ points = <<>>
    /\ conn = [c \in Connections |-> Idle]
    /\ page = NoPage
    /\ reading = NotReading
    /\ fetching = NotFetching

Next ==
    \/ \E user_id \in Players, round_num \in 1..MaxRound,
          rider_450 \in Form450, rider_250 \in Form250 :
          SubmitPick(user_id, round_num, rider_450, rider_250)
    \/ \E user_id \in Players, round_num \in 1..MaxRound : LoadPickPage(user_id, round_num)
    \/ \E round_num \in 1..MaxRound : admin_assign_autopicks(round_num)
    \/ \E round_num \in {1, 2} : DeleteRound(round_num)
    \/ \E user_id \in 1..3 : DeleteUser(user_id)
    \/ Tick

Spec == Init /\ [][Next]_vars

(***************************************************************************)
(* Requests that overlap.  Each request runs on its own connection         *)
(* (get_db_connection per request, default isolation READ COMMITTED): its   *)
(* statements read the committed rows, its writes show at conn.commit().    *)
(***************************************************************************)
\* the request's statements up to conn.commit(); a DELETE waits for the rows another
\* open transaction has deleted
Begin(c, writes) ==
    /\ ~conn[c].active
    /\ \A other \in Connections \ {c} :
          (DOMAIN conn[other].deleted) \cap (DOMAIN writes.deleted) = {}
    /\ conn' = [conn EXCEPT ![c] = [active |-> TRUE, flash |-> writes.flash,
                                    deleted |-> writes.deleted,
                                    inserted |-> writes.inserted]]
    /\ UNCHANGED <<page, reading, fetching>>
    /\ UNCHANGED <<riders, clock, users, schedule, picks, results, user_round_points,
                   leaderboard_totals, leaderboard_metadata, flash, position, points>>

\* /pick/<round_num> on connection c
BeginPick(c, user_id, round_num, method, rider_450, rider_250) ==
    /\ user_id \in {u.id : u \in users}
    /\ \E writes \in pick_writes(user_id, round_num, method, rider_450, rider_250) :
          Begin(c, writes)

\* /admin/assign-autopicks/<round_num> on connection c
BeginSweep(c, round_num) ==
    \E writes \in admin_assign_autopicks_writes(round_num) : Begin(c, writes)

\* conn.commit(), flash(...), conn.close()
EndRequest(c) ==
    /\ conn[c].active
    /\ picks' = Commit(picks, conn[c])
    /\ flash' = conn[c].flash
    /\ conn' = [conn EXCEPT ![c] = Idle]
    /\ UNCHANGED <<page, reading, fetching>>
    /\ UNCHANGED <<riders, clock, users, schedule, results, user_round_points,
                   leaderboard_totals, leaderboard_metadata, position, points>>

\* bob's browser tabs and the admin, all on round 1
NextConc ==
    \/ \E c \in Connections, rider_450 \in {"Jett Lawrence", "Eli Tomac"},
          rider_250 \in Form250 :
          BeginPick(c, 2, 1, "POST", rider_450, rider_250)
    \/ \E c \in Connections : BeginPick(c, 2, 1, "GET", "", "")
    \/ \E c \in Connections : BeginSweep(c, 1)
    \/ \E c \in Connections : EndRequest(c)
    \/ Tick

SpecConc == Init /\ [][NextConc]_vars

(***************************************************************************)
(* Scoring function, applied to the positions handed in.                   *)
(***************************************************************************)
Score ==
    /\ points = <<>>
    /\ points' = [i \in 1..Len(position) |-> get_points(position[i])]
    /\ UNCHANGED <<page, reading, fetching>>
    /\ UNCHANGED <<riders, clock, users, schedule, picks, results, user_round_points,
                   leaderboard_totals, leaderboard_metadata, flash, position, conn>>

InitPoints ==
    /\ riders = RiderTable
    /\ clock = 0
    /\ users = {}
    /\ schedule = {}
    /\ picks = EmptyBag
    /\ results = EmptyBag
    /\ user_round_points = {}
    /\ leaderboard_totals = {}
    /\ leaderboard_metadata = {}
    /\ flash = ""
    /\ position \in {<<p, q>> : p \in 0..MaxPos, q \in {0, 1, 4, 5, 20, 21, MaxPos}}
    /\ points = <<>>
    /\ conn = [c \in Connections |-> Idle]
    /\ page = NoPage
    /\ reading = NotReading
    /\ fetching = NotFetching

NextPoints == Score

SpecPoints == InitPoints /\ [][NextPoints]_vars

(***************************************************************************)
(* Leaderboard cache builder.                                              *)
(***************************************************************************)
\* rider name -> initials, for the names on the roster
get_initials(name) ==
    IF name = "Jett Lawrence" THEN "JL"
    ELSE IF name = "Eli Tomac" THEN "ET"
    ELSE IF name = "Ken Roczen" THEN "KR"
    ELSE IF name = "Haiden Deegan" THEN "HD"
    ELSE IF name = "Tom Vialle" THEN "TV"
    ELSE ""

\* SQL NULL in the integer column position
NullPosition == 0 - 1

\* SELECT id, username FROM users ORDER BY username
UsersByUsername ==
    Items(Sorted(
        LET present == Filter(UsernameOrder, {u.username : u \in users})
        IN  [i \in 1..Len(present) |->
                <<i, CHOOSE u \in users : u.username = present[i]>>]))

\* SELECT ... FROM schedule ORDER BY round
ScheduleByRound ==
    LET rounds == Filter([i \in 1..(MaxRound + 1) |-> i], {s.round : s \in schedule})
    IN  [i \in 1..Len(rounds) |-> CHOOSE s \in schedule : s.round = rounds[i]]

\* variant: a round counts from its deadline on
visible_rounds_at_deadline(now_utc) ==
    LET sched == ScheduleByRound
        RECURSIVE Visible(_)
        Visible(i) ==
            IF i > Len(sched) THEN <<>>
            ELSE (IF now_utc >= sched[i].race_date THEN <<sched[i].round>> ELSE <<>>)
                 \o Visible(i + 1)
    IN  Visible(1)

\* the rounds whose deadline has passed, in schedule order
visible_rounds(now_utc) ==
    LET sched == ScheduleByRound
        RECURSIVE Visible(_)
        Visible(i) ==
            IF i > Len(sched) THEN <<>>
            ELSE (IF now_utc > sched[i].race_date THEN <<sched[i].round>> ELSE <<>>)
                 \o Visible(i + 1)
    IN  Visible(1)

\* a dict built from rows in the order the query returns them: one entry per key;
\* where several rows share a key the last one returned stays, so every choice is listed
RECURSIVE Indexes(_, _)
Indexes(keys, candidates) ==
    IF keys = {} THEN {<<>>}
    ELSE LET key == CHOOSE k \in keys : TRUE
         IN  { (key :> row[2]) @@ index :
                   row \in {r \in candidates : r[1] = key},
                   index \in Indexes(keys \ {key}, candidates) }

\* picks_index: (user_id, round_num, class) -> pick, over the picks of visible rounds
PicksIndexes(pick_table, visible) ==
    LET all_picks == {<<<<row.user_id, row.round_num, row.class>>, row>> :
                         row \in {x \in Rows(pick_table) : x.round_num \in Range(visible)}}
    IN  Indexes({c[1] : c \in all_picks}, all_picks)

\* results_index: (round_num, class, rider) -> position
ResultsIndexes ==
    LET all_results == {<<<<row.round_num, row.class, row.rider>>, row.position>> :
                           row \in Rows(results)}
    IN  Indexes({c[1] : c \in all_results}, all_results)

\* round_race_types.get(rnd, 'supercross')
RoundRaceType(rnd) ==
    IF \E s \in schedule : s.round = rnd
    THEN (CHOOSE s \in schedule : s.round = rnd).race_type
    ELSE "supercross"

\* variant: an auto-picked rider scores nothing
CacheRowPenalised(user, rnd, cls, picks_index, results_index) ==
    LET pick_key == <<user.id, rnd, cls>>
        has_pick == pick_key \in DOMAIN picks_index
        rider == IF has_pick THEN picks_index[pick_key].rider ELSE None
        has_result == has_pick /\ <<rnd, cls, rider>> \in DOMAIN results_index
        result_position == IF has_result THEN results_index[<<rnd, cls, rider>>]
                           ELSE NullPosition
        auto_random == has_pick /\ picks_index[pick_key].auto_random # 0
    IN  [ user_id        |-> user.id,
          username       |-> user.username,
          round_num      |-> rnd,
          race_type      |-> RoundRaceType(rnd),
          class          |-> cls,
          rider          |-> rider,
          rider_initials |-> IF has_pick THEN get_initials(rider) ELSE "-",
          position       |-> result_position,
          points         |-> IF has_result /\ ~auto_random
                             THEN get_points(result_position) ELSE 0,
          auto_random    |-> auto_random ]

\* the row cached for (user, rnd, cls)
CacheRow(user, rnd, cls, picks_index, results_index) ==
    LET pick_key == <<user.id, rnd, cls>>
        has_pick == pick_key \in DOMAIN picks_index
        rider == IF has_pick THEN picks_index[pick_key].rider ELSE None
        has_result == has_pick /\ <<rnd, cls, rider>> \in DOMAIN results_index
        result_position == IF has_result THEN results_index[<<rnd, cls, rider>>]
                           ELSE NullPosition
    IN  [ user_id        |-> user.id,
          username       |-> user.username,
          round_num      |-> rnd,
          race_type      |-> RoundRaceType(rnd),
          class          |-> cls,
          rider          |-> rider,
          rider_initials |-> IF has_pick THEN get_initials(rider) ELSE "-",
          position       |-> result_position,
          points         |-> IF has_result THEN get_points(result_position) ELSE 0,
          auto_random    |-> has_pick /\ picks_index[pick_key].auto_random # 0 ]

\* variant: the race-type bucket is never added to
AddToTotalsOverallOnly(totals, race_type, row_points) ==
    [totals EXCEPT !["overall"] = @ + row_points]

\* user_totals[user_id]['overall'] += points; user_totals[user_id][race_type] += points
AddToTotals(totals, race_type, row_points) ==
    [totals EXCEPT !["overall"] = @ + row_points, ![race_type] = @ + row_points]

\* variant: the totals start from the cached ones
InitialTotalsFromCache(user) ==
    [view \in Range(VIEW_TYPES) |->
        LET cached == {t \in leaderboard_totals : t.user_id = user.id /\ t.view_type = view}
        IN  IF cached = {} THEN 0 ELSE (CHOOSE t \in cached : TRUE).total_points]

\* user_totals = {user['id']: {'overall': 0, 'supercross': 0, 'motocross': 0, 'SMX': 0}}
InitialTotals(user) == [view \in Range(VIEW_TYPES) |-> 0]

\* the running totals of one user after the loops over visible rounds and classes
RECURSIVE UserTotals(_, _, _, _, _)
UserTotals(user, visible, todo, picks_index, results_index) ==
    \* todo counts the (round, class) iterations still to add, last first
    IF todo = 0 THEN InitialTotals(user)
    ELSE LET rnd == visible[(todo + 1) \div 2]
             cls == CLASSES[2 - (todo % 2)]
             row == CacheRow(user, rnd, cls, picks_index, results_index)
             before == UserTotals(user, visible, todo - 1, picks_index, results_index)
         IN  IF row.position # NullPosition
             THEN AddToTotals(before, row.race_type, row.points)
             ELSE before

\* variant: ranks follow the order of the user list, whatever the totals
RankedUsersUnsorted(users_list, user_totals, view_type) == users_list

\* sorted(users, key=total, reverse=True): stable, so equal totals keep username order
RankedUsers(users_list, user_totals, view_type) ==
    Items(Sorted([i \in 1..Len(users_list) |->
        <<0 - user_totals[users_list[i].id][view_type], users_list[i]>>]))

\* variant: the cache is not cleared
ClearCacheKeep(table) == table

\* DELETE FROM user_round_points; DELETE FROM leaderboard_totals
ClearCache(table) == {}

\* variant: only rows with a pick are inserted
UpsertPickedRoundPoints(table, rows) == table \cup {row \in rows : row.rider # None}

\* INSERT ... ON CONFLICT (user_id, round_num, class) DO UPDATE
UpsertRoundPoints(table, rows) ==
    {old \in table : ~\E row \in rows : /\ row.user_id = old.user_id
                                         /\ row.round_num = old.round_num
                                         /\ row.class = old.class} \cup rows

\* INSERT ... ON CONFLICT (user_id, view_type) DO UPDATE
UpsertTotals(table, rows) ==
    {old \in table : ~\E row \in rows : /\ row.user_id = old.user_id
                                         /\ row.view_type = old.view_type} \cup rows

\* variant: a plain INSERT
UpsertMetadataInsert(table, rows) == table \cup rows

\* INSERT ... ON CONFLICT (key) DO UPDATE
UpsertMetadata(table, rows) ==
    {old \in table : ~\E row \in rows : row.key = old.key} \cup rows

\* recalculate_leaderboard() at the instant clock over the picks of pick_table: the
\* cache tables it may leave behind, as the set of its outcomes
recalculate_with(pick_table) ==
    LET users_list == UsersByUsername
        now_utc == clock
        visible == visible_rounds(now_utc)
    IN  { LET user_totals == [user_id \in {u.id : u \in users} |->
                  UserTotals(CHOOSE u \in users : u.id = user_id, visible,
                             2 * Len(visible), picks_index, results_index)]
          IN  [ user_round_points |->
                    UpsertRoundPoints(ClearCache(user_round_points),
                        { CacheRow(user, rnd, cls, picks_index, results_index) :
                            user \in users, rnd \in Range(visible), cls \in Range(CLASSES) }),
                leaderboard_totals |->
                    UpsertTotals(ClearCache(leaderboard_totals),
                        UNION { LET sorted_users ==
                                        RankedUsers(users_list, user_totals, view_type)
                                IN  { [ user_id      |-> sorted_users[rank].id,
                                        username     |-> sorted_users[rank].username,
                                        view_type    |-> view_type,
                                        total_points |->
                                            user_totals[sorted_users[rank].id][view_type],
                                        rank         |-> rank ] :
                                      rank \in 1..Len(sorted_users) }
                                : view_type \in Range(VIEW_TYPES) }),
                leaderboard_metadata |->
                    UpsertMetadata(leaderboard_metadata,
                        {[key |-> "last_recalculated", value |-> now_utc]}) ]
          : picks_index \in PicksIndexes(pick_table, visible),
            results_index \in ResultsIndexes }

\* recalculate_leaderboard() over the tables as they are
recalculate_leaderboard == recalculate_with(picks)

\* /admin/recalculate-leaderboard
admin_recalculate_leaderboard ==
    /\ \E cache \in recalculate_leaderboard :
          /\ user_round_points' = cache.user_round_points
          /\ leaderboard_totals' = cache.leaderboard_totals
          /\ leaderboard_metadata' = cache.leaderboard_metadata
    /\ flash' = "Leaderboard recalculated successfully!"
    /\ UNCHANGED <<page, reading, fetching>>
    /\ UNCHANGED <<riders, clock, users, schedule, picks, results, position, points, conn>>

(***************************************************************************)
(* Leaderboard reader (/leaderboard?view=...).                              *)
(***************************************************************************)
\* the response to an unhandled exception
ServerError == [status |-> "500"]

\* Query 1: SELECT ... FROM leaderboard_totals WHERE view_type = view ORDER BY rank
RECURSIVE OrderByRank(_)
OrderByRank(rows) ==
    IF rows = {} THEN <<>>
    ELSE LET first == CHOOSE t \in rows : \A other \in rows : t.rank <= other.rank
         IN  <<first>> \o OrderByRank(rows \ {first})

totals_query(view) == OrderByRank({t \in leaderboard_totals : t.view_type = view})

\* Query 3: results_counts.get(round, 0) > 0
has_results(round_num) == \E row \in Rows(results) : row.round_num = round_num

\* the loop over the schedule: the first round whose deadline has passed makes it
\* evaluate location.split(','), and no name `location` exists in the function
raises_NameError == \E s \in schedule : clock > s.race_date

\* visible_rounds as the loop leaves it when it gets through
reader_visible_rounds(view) ==
    LET sched == ScheduleByRound
        RECURSIVE Visible(_)
        Visible(i) ==
            IF i > Len(sched) THEN <<>>
            ELSE (IF /\ clock > sched[i].race_date
                     /\ (view = "overall" \/ sched[i].race_type = view)
                  THEN <<[round |-> sched[i].round,
                          has_results |-> has_results(sched[i].round)]>>
                  ELSE <<>>)
                 \o Visible(i + 1)
    IN  Visible(1)

\* Query 4 and round_details.get(key, default), then points overwritten with '-'
\* in a round without results; "--" stands for the dash of a missing entry and
\* points are <<n>>, or <<>> for '-'
round_pick(view, visible, user_id, rnd_info, cls) ==
    LET round_nums == {visible[i].round : i \in 1..Len(visible)}
        all_round_data ==
            {row \in user_round_points :
                /\ row.round_num \in round_nums
                /\ (view = "overall" \/ row.race_type = view)}
        found == {row \in all_round_data :
                     /\ row.user_id = user_id
                     /\ row.round_num = rnd_info.round
                     /\ row.class = cls}
    IN  IF found = {}
        THEN [initials |-> "--", points |-> <<>>, random |-> FALSE]
        ELSE LET row == CHOOSE x \in found : TRUE
             IN  [initials |-> IF row.rider_initials = "" THEN "--" ELSE row.rider_initials,
                  points   |-> IF rnd_info.has_results THEN <<row.points>> ELSE <<>>,
                  random   |-> row.auto_random]

\* Query 5: the marker, {} when there is none
last_updated_query ==
    {m.value : m \in {x \in leaderboard_metadata : x.key = "last_recalculated"}}

\* what the template is rendered from
leaderboard_page(view, totals, visible, last_updated) ==
    LET player_data ==
            [i \in 1..Len(totals) |->
                [ username    |-> totals[i].username,
                  total       |-> totals[i].total_points,
                  rank        |-> totals[i].rank,
                  round_picks |->
                      [j \in 1..Len(visible) |->
                          [ round |-> visible[j].round,
                            c450  |-> round_pick(view, visible, totals[i].user_id,
                                                 visible[j], "450"),
                            c250  |-> round_pick(view, visible, totals[i].user_id,
                                                 visible[j], "250") ]] ]]
    IN  [ status         |-> "200",
          view           |-> view,
          cache_empty    |-> Len(player_data) = 0,
          last_updated   |-> last_updated,
          visible_rounds |-> visible,
          player_data    |-> player_data ]

\* the response once Query 1 has returned `totals`: the queries and the loop after it
leaderboard_after_totals(view, totals) ==
    IF raises_NameError THEN ServerError
    ELSE leaderboard_page(view, totals, reader_visible_rounds(view), last_updated_query)

\* the response of a request that runs with no other request in between
leaderboard_response(view) == leaderboard_after_totals(view, totals_query(view))

\* /leaderboard?view=view
leaderboard(view) ==
    /\ ~reading.active
    /\ page' = leaderboard_response(view)
    /\ UNCHANGED <<reading, fetching>>
    /\ UNCHANGED <<riders, clock, users, schedule, picks, results, user_round_points,
                   leaderboard_totals, leaderboard_metadata, flash, position, points, conn>>

\* the request up to the return of Query 1; every statement of the request reads
\* the rows committed when it runs (READ COMMITTED), so what is committed after
\* Query 1 shows in the queries that follow.  `before` keeps the response the
\* request would have given had it run whole at this point.
BeginRead(view) ==
    /\ ~reading.active
    /\ reading' = [active |-> TRUE, view |-> view, totals |-> totals_query(view),
                   before |-> leaderboard_response(view)]
    /\ UNCHANGED <<page, fetching>>
    /\ UNCHANGED <<riders, clock, users, schedule, picks, results, user_round_points,
                   leaderboard_totals, leaderboard_metadata, flash, position, points, conn>>

\* the rest of the request: Queries 2 to 5 and the page
EndRead ==
    /\ reading.active
    /\ page' = leaderboard_after_totals(reading.view, reading.totals)
    /\ reading' = NotReading
    /\ UNCHANGED fetching
    /\ UNCHANGED <<riders, clock, users, schedule, picks, results, user_round_points,
                   leaderboard_totals, leaderboard_metadata, flash, position, points, conn>>

(***************************************************************************)
(* The leaderboard over a league in mid-season: three accounts, alice with  *)
(* submitted picks, bob with auto-picks for the first two rounds, the admin *)
(* with none, and results entered for some rounds.                          *)
(***************************************************************************)
NoPair == <<"", "">>

\* the pairs a user can hold for round r
PairOptions(r) ==
    {NoPair} \cup
    { <<a.name, b.name>> : a \in {x \in RiderTable : x.active /\ x.class = "450"},
                           b \in {x \in RiderTable :
                                    /\ x.active
                                    /\ \/ ScheduleRow(r).class_250 = "West" /\ x.class = "250_West"
                                       \/ ScheduleRow(r).class_250 = "East" /\ x.class = "250_East"
                                       \/ /\ ScheduleRow(r).class_250 = "Combined"
                                          /\ x.class \in {"250_West", "250_East"}} }

\* what one user can hold over the season: a pair or nothing per round, no rider
\* twice within two rounds
Cards ==
    { card \in [1..MaxRound -> UNION {PairOptions(r) : r \in 1..MaxRound}] :
        /\ \A r \in 1..MaxRound : card[r] \in PairOptions(r)
        /\ \A r1, r2 \in 1..MaxRound :
              (r1 < r2 /\ r2 - r1 <= 2 /\ card[r1] # NoPair /\ card[r2] # NoPair)
              => (card[r1][1] # card[r2][1] /\ card[r1][2] # card[r2][2]) }

CardRows(user_id, card, auto_random) ==
    UNION { { PickRow(user_id, r, "450", card[r][1], auto_random),
              PickRow(user_id, r, "250", card[r][2], auto_random) }
            : r \in {x \in 1..MaxRound : card[x] # NoPair} }

ResultRow(round_num, cls, rider, pos) ==
    [round_num |-> round_num, class |-> cls, rider |-> rider, position |-> pos]

\* results as entered after round 1, and later in the season with round 4 entered early
ResultsRound1 ==
    { ResultRow(1, "450", "Jett Lawrence", 1), ResultRow(1, "450", "Eli Tomac", 2),
      ResultRow(1, "250", "Haiden Deegan", 3) }

ResultsSeason ==
    ResultsRound1 \cup
    { ResultRow(2, "450", "Eli Tomac", 5), ResultRow(2, "450", "Jett Lawrence", 20),
      ResultRow(2, "250", "Tom Vialle", 21),
      ResultRow(3, "450", "Jett Lawrence", 4), ResultRow(3, "450", "Eli Tomac", 1),
      ResultRow(3, "250", "Haiden Deegan", 2), ResultRow(3, "250", "Tom Vialle", 22),
      ResultRow(4, "450", "Jett Lawrence", 1), ResultRow(4, "250", "Haiden Deegan", 1) }

\* the season's calendar with rounds 2 and 3 on one weekend
BoardScheduleRow(r) == [ScheduleRow(r) EXCEPT !.race_date = r \div 2]

InitBoard ==
    /\ riders = RiderTable
    /\ clock = 0
    /\ users = UserTable
    /\ schedule = {BoardScheduleRow(r) : r \in 1..MaxRound}
    /\ \E alice \in Cards, bob \in {card \in Cards : \A r \in 3..MaxRound : card[r] = NoPair} :
          picks = SetToBag(CardRows(3, alice, 0) \cup CardRows(2, bob, 1))
    /\ results \in {EmptyBag, SetToBag(ResultsRound1), SetToBag(ResultsSeason)}
    /\ user_round_points = {}
    /\ leaderboard_totals = {}
    /\ leaderboard_metadata = {}
    /\ flash = ""
    /\ position = <<>>
    /\ points = <<>>
    /\ conn = [c \in Connections |-> Idle]
    /\ page = NoPage
    /\ reading = NotReading
    /\ fetching = NotFetching

NextBoard ==
    \/ admin_recalculate_leaderboard
    \/ Tick

SpecBoard == InitBoard /\ [][NextBoard]_vars

(***************************************************************************)
(* The admin's season: results entered and imported for round 1, the cache  *)
(* recalculated, a round and a user deleted, while picks keep coming in.    *)
(***************************************************************************)
\* a results form of round 1 with the three fields of its riders filled as given
ResultsForm(jett, eli, haiden) ==
    [name \in {r.name : r \in riders} |->
        IF name = "Jett Lawrence" THEN jett
        ELSE IF name = "Eli Tomac" THEN eli
        ELSE IF name = "Haiden Deegan" THEN haiden
        ELSE ""]

\* the forms the admin posts: a full sheet, a sheet with a tie, a single correction,
\* a swapped sheet with a stray character, an empty sheet
AdminForms ==
    { ResultsForm("1", "2", "1"), ResultsForm("1", "1", "1"), ResultsForm("", "1", ""),
      ResultsForm("2", "1", "x"), ResultsForm("", "", "") }

\* what the results site shows for round 1: nothing, a tie, or one rider per class
ParsedPages ==
    { << <<>>, <<>> >>,
      << ("Jett Lawrence" :> 1) @@ ("Eli Tomac" :> 1), <<>> >>,
      << ("Jett Lawrence" :> 1), ("Haiden Deegan" :> 2) >> }

InitAdmin ==
    /\ riders = RiderTable
    /\ clock = 0
    /\ users = {u \in UserTable : u.id \in {2, 3}}
    /\ schedule = {ScheduleRow(1), ScheduleRow(2)}
    /\ picks = SetToBag({ PickRow(3, 1, "450", "Jett Lawrence", 0),
                          PickRow(3, 1, "250", "Haiden Deegan", 0) })
    /\ results = EmptyBag
    /\ user_round_points = {}
    /\ leaderboard_totals = {}
    /\ leaderboard_metadata = {}
    /\ flash = ""
    /\ position = <<>>
    /\ points = <<>>
    /\ conn = [c \in Connections |-> Idle]
    /\ page = NoPage
    /\ reading = NotReading
    /\ fetching = NotFetching

NextAdmin ==
    \/ \E form \in AdminForms : admin_results(1, form)
    \/ \E parsed \in ParsedPages : fetch_results(1, parsed[1], parsed[2])
    \/ admin_recalculate_leaderboard
    \/ SubmitPick(2, 2, "Jett Lawrence", "Tom Vialle")
    \/ LoadPickPage(2, 1)
    \/ admin_assign_autopicks(1)
    \/ DeleteRound(1)
    \/ DeleteUser(3)
    \/ Tick

SpecAdmin == InitAdmin /\ [][NextAdmin]_vars

(***************************************************************************)
(* The auto-pick ranking over a full 450 field: twelve active riders, the   *)
(* results of rounds 1 and 2, and round 3 (locked at instant 2) auto-picked *)
(* for bob and alice.                                                       *)
(***************************************************************************)
\* the twelve active 450 riders in the order they finished round 1
FieldOrder ==
    <<"Jett Lawrence", "Eli Tomac", "Chase Sexton", "Cooper Webb", "Hunter Lawrence",
      "Jason Anderson", "Aaron Plessinger", "Justin Barcia", "Malcolm Stewart",
      "Justin Cooper", "Dylan Ferrandis", "Christian Craig">>

\* the riders table with the full 450 field entered
FieldRoster ==
    RiderTable \cup { [name |-> FieldOrder[i], class |-> "450", active |-> TRUE] :
                        i \in 1..Len(FieldOrder) }

\* the 450 results of a round: order[i] finished in position first + i - 1
Sheet(round_num, order, first) ==
    { ResultRow(round_num, "450", order[i], first + i - 1) : i \in 1..Len(order) }

\* round 1 with the field in positions 1 to 12
ResultsField == Sheet(1, FieldOrder, 1)

\* rounds 1 and 2; Justin Cooper and Dylan Ferrandis swap places 10 and 11 in round 2
\* and share 23 points
ResultsTied ==
    ResultsField \cup
    Sheet(2, [FieldOrder EXCEPT ![10] = "Dylan Ferrandis", ![11] = "Justin Cooper"], 1)

\* round 1 with only the winner in the points: the others are entered from place 21 on
ResultsBackmarkers ==
    Sheet(1, <<"Jett Lawrence">>, 1) \cup Sheet(1, Tail(FieldOrder), 21)

\* what bob holds around round 3: nothing, a pair for round 2, or pairs for rounds 1 and 4
PoolCards ==
    { {},
      CardRows(2, [r \in 1..MaxRound |-> IF r = 2 THEN <<"Jett Lawrence", "Tom Vialle">>
                                         ELSE NoPair], 0),
      CardRows(2, [r \in 1..MaxRound |-> IF r = 1 THEN <<"Eli Tomac", "Haiden Deegan">>
                                         ELSE IF r = 4 THEN <<"Jett Lawrence", "Haiden Deegan">>
                                         ELSE NoPair], 0) }

InitPool ==
    /\ riders = FieldRoster
    /\ clock = 0
    /\ users = {u \in UserTable : u.id \in {2, 3}}
    /\ schedule = {BoardScheduleRow(r) : r \in 1..MaxRound}
    /\ \E card \in PoolCards : picks = SetToBag(card)
    /\ \E sheet \in {{}, ResultsField, ResultsTied, ResultsBackmarkers} :
          results = SetToBag(sheet)
    /\ user_round_points = {}
    /\ leaderboard_totals = {}
    /\ leaderboard_metadata = {}
    /\ flash = ""
    /\ position = <<>>
    /\ points = <<>>
    /\ conn = [c \in Connections |-> Idle]
    /\ page = NoPage
    /\ reading = NotReading
    /\ fetching = NotFetching

NextPool ==
    \/ LoadPickPage(2, 3)
    \/ admin_assign_autopicks(3)
    \/ Tick

SpecPool == InitPool /\ [][NextPool]_vars

(***************************************************************************)
(* The leaderboard read through the season: results entered for round 1,    *)
(* the cache recalculated, a round and a user deleted, and the page loaded  *)
(* in every view.                                                           *)
(***************************************************************************)
InitReader ==
    /\ riders = RiderTable
    /\ clock = 0
    /\ users = {u \in UserTable : u.id \in {2, 3}}
    /\ schedule = {ScheduleRow(r) : r \in 1..2}
    /\ picks = SetToBag({ PickRow(3, 1, "450", "Jett Lawrence", 0),
                          PickRow(3, 1, "250", "Haiden Deegan", 0),
                          PickRow(2, 1, "450", "Eli Tomac", 1),
                          PickRow(2, 1, "250", "Haiden Deegan", 1) })
    /\ results = EmptyBag
    /\ user_round_points = {}
    /\ leaderboard_totals = {}
    /\ leaderboard_metadata = {}
    /\ flash = ""
    /\ position = <<>>
    /\ points = <<>>
    /\ conn = [c \in Connections |-> Idle]
    /\ page = NoPage
    /\ reading = NotReading
    /\ fetching = NotFetching

NextReader ==
    \/ \E view \in Range(VIEW_TYPES) : leaderboard(view)
    \/ admin_recalculate_leaderboard
    \/ \E form \in {ResultsForm("1", "2", "1"), ResultsForm("2", "1", "")} :
          admin_results(1, form)
    \/ DeleteRound(1)
    \/ DeleteUser(3)
    \/ Tick

SpecReader == InitReader /\ [][NextReader]_vars

(***************************************************************************)
(* Reads of the leaderboard that overlap recalculations, before the season  *)
(* opens: round r locks after the instant r.  A recalculation is one        *)
(* transaction, committed at its end.                                       *)
(***************************************************************************)
\* the calendar with the opener one instant later
LateScheduleRow(r) == [ScheduleRow(r) EXCEPT !.race_date = r]

InitOverlap ==
    /\ riders = RiderTable
    /\ clock = 0
    /\ users = UserTable
    /\ schedule = {LateScheduleRow(r) : r \in 1..2}
    /\ picks = SetToBag({ PickRow(3, 1, "450", "Jett Lawrence", 0),
                          PickRow(3, 1, "250", "Haiden Deegan", 0) })
    /\ results = EmptyBag
    /\ user_round_points = {}
    /\ leaderboard_totals = {}
    /\ leaderboard_metadata = {}
    /\ flash = ""
    /\ position = <<>>
    /\ points = <<>>
    /\ conn = [c \in Connections |-> Idle]
    /\ page = NoPage
    /\ reading = NotReading
    /\ fetching = NotFetching

NextOverlap ==
    \/ \E view \in Range(VIEW_TYPES) : BeginRead(view)
    \/ EndRead
    \/ admin_recalculate_leaderboard
    \/ \E user_id \in {2, 3} : DeleteUser(user_id)
    \/ Tick

SpecOverlap == InitOverlap /\ [][NextOverlap]_vars

(***************************************************************************)
(* Resubmissions that overlap recalculations: bob holds a submitted pair    *)
(* for round 1 and resubmits from his browser tabs before the deadline; the *)
(* commits may come after it, when the admin recalculates.                  *)
(***************************************************************************)
InitResubmit ==
    /\ riders = RiderTable
    /\ clock = 0
    /\ users = {u \in UserTable : u.id \in {1, 2}}
    /\ schedule = {ScheduleRow(r) : r \in 1..2}
    /\ picks = SetToBag({ PickRow(2, 1, "450", "Eli Tomac", 0),
                          PickRow(2, 1, "250", "Haiden Deegan", 0) })
    /\ results = EmptyBag
    /\ user_round_points = {}
    /\ leaderboard_totals = {}
    /\ leaderboard_metadata = {}
    /\ flash = ""
    /\ position = <<>>
    /\ points = <<>>
    /\ conn = [c \in Connections |-> Idle]
    /\ page = NoPage
    /\ reading = NotReading
    /\ fetching = NotFetching

NextResubmit ==
    \/ \E c \in Connections, rider_450 \in {"Jett Lawrence", "Eli Tomac"},
          rider_250 \in Form250 :
          BeginPick(c, 2, 1, "POST", rider_450, rider_250)
    \/ \E c \in Connections : EndRequest(c)
    \/ admin_recalculate_leaderboard
    \/ Tick

SpecResubmit == InitResubmit /\ [][NextResubmit]_vars

(***************************************************************************)
(* The import of round 1 step by step: the event lookup, the two turns of   *)
(* the class loop and the commit, with manual entries between imports.      *)
(* Jett Lawrence's result was entered by hand before.                       *)
(***************************************************************************)
\* what get_event_id returns: None, or the id found on the results site
EventIds == {None, "486"}

\* what parse_results returns for a class: nothing, or positions of its riders (a
\* cell "0" beside a rider's name is a position like any other)
ImportPages ==
    { <<>>, ("Jett Lawrence" :> 1), ("Jett Lawrence" :> 1) @@ ("Eli Tomac" :> 2),
      ("Haiden Deegan" :> 2), ("Eli Tomac" :> 0) }

\* the sheets the admin enters by hand
ImportForms == { ResultsForm("2", "1", "1"), ResultsForm("", "", "2"), ResultsForm("", "", "0") }

InitImport ==
    /\ riders = RiderTable
    /\ clock = 0
    /\ users = {u \in UserTable : u.id \in {2, 3}}
    /\ schedule = {ScheduleRow(1), ScheduleRow(2)}
    /\ picks = EmptyBag
    /\ results = SetToBag({ [round_num |-> 1, class |-> "450", rider |-> "Jett Lawrence",
                             position |-> 2] })
    /\ user_round_points = {}
    /\ leaderboard_totals = {}
    /\ leaderboard_metadata = {}
    /\ flash = ""
    /\ position = <<>>
    /\ points = <<>>
    /\ conn = [c \in Connections |-> Idle]
    /\ page = NoPage
    /\ reading = NotReading
    /\ fetching = NotFetching

NextImport ==
    \/ \E round_num \in {1, 3}, event_id \in EventIds :
          fetch_results_begin(round_num, event_id)
    \/ \E parsed \in ImportPages : fetch_results_class(parsed)
    \/ fetch_results_commit
    \/ \E form \in ImportForms : ~fetching.active /\ admin_results(1, form)
    \/ Tick

SpecImport == InitImport /\ [][NextImport]_vars

(***************************************************************************)
(* Result entries that overlap: two admin sessions post sheets for round 1, *)
(* each on its own connection.                                              *)
(***************************************************************************)
\* POST /admin/<round_num> up to conn.commit(): what the handler will flash and the
\* rows its DELETEs and INSERTs touch, read from the committed results
admin_results_writes(round_num, form) ==
    IF get_round_info(round_num) = {}
    THEN NoWrites("Invalid round")
    ELSE
    LET riders_450 == get_riders_by_class("450")
        riders_250 == get_available_250_riders(round_num)
        writes(cls, class_riders) ==
            import_writes(round_num, cls,
                          [rider \in Entered(form, class_riders) |-> to_int(form[rider])])
    IN  IF DuplicatePosition(form, riders_450) \/ DuplicatePosition(form, riders_250)
        THEN NoWrites("Duplicate position")
        ELSE [ flash |-> IF Entered(form, riders_450) \cup Entered(form, riders_250) # {}
                         THEN "Manual results saved"
                         ELSE "No positions were entered. Fill in at least one position to save.",
               deleted |-> writes("450", riders_450).deleted
                           (+) writes("250", riders_250).deleted,
               inserted |-> writes("450", riders_450).inserted
                            (+) writes("250", riders_250).inserted ]

\* POST /admin/<round_num> on connection c
BeginResults(c, round_num, form) == Begin(c, admin_results_writes(round_num, form))

\* conn.commit(), flash(...), conn.close() of a results request
EndResults(c) ==
    /\ conn[c].active
    /\ results' = Commit(results, conn[c])
    /\ flash' = conn[c].flash
    /\ conn' = [conn EXCEPT ![c] = Idle]
    /\ UNCHANGED <<page, reading, fetching>>
    /\ UNCHANGED <<riders, clock, users, schedule, picks, user_round_points,
                   leaderboard_totals, leaderboard_metadata, position, points>>

\* two admin sessions entering results for round 1
EntryForms == { ResultsForm("1", "2", "1"), ResultsForm("2", "1", ""), ResultsForm("", "", "2") }

InitEntry ==
    /\ riders = RiderTable
    /\ clock = 0
    /\ users = {u \in UserTable : u.id \in {2, 3}}
    /\ schedule = {ScheduleRow(1), ScheduleRow(2)}
    /\ picks = EmptyBag
    /\ results = EmptyBag
    /\ user_round_points = {}
    /\ leaderboard_totals = {}
    /\ leaderboard_metadata = {}
    /\ flash = ""
    /\ position = <<>>
    /\ points = <<>>
    /\ conn = [c \in Connections |-> Idle]
    /\ page = NoPage
    /\ reading = NotReading
    /\ fetching = NotFetching

NextEntry ==
    \/ \E c \in Connections, form \in EntryForms : BeginResults(c, 1, form)
    \/ \E c \in Connections : EndResults(c)

SpecEntry == InitEntry /\ [][NextEntry]_vars

(***************************************************************************)
(* The ranking's history: results entered, corrected and removed for rounds *)
(* 1 to 3 in any order.                                                     *)
(***************************************************************************)
\* the sheets entered for a round: the favourite first, the order swapped, a rider
\* scored 0
HistoryForms ==
    { ResultsForm("1", "2", "1"), ResultsForm("2", "1", ""), ResultsForm("1", "0", "2") }

InitHistory ==
    /\ riders = RiderTable
    /\ clock = 0
    /\ users = {u \in UserTable : u.id \in {1, 2}}
    /\ schedule = {ScheduleRow(r) : r \in 1..3}
    /\ picks = EmptyBag
    /\ results = EmptyBag
    /\ user_round_points = {}
    /\ leaderboard_totals = {}
    /\ leaderboard_metadata = {}
    /\ flash = ""
    /\ position = <<>>
    /\ points = <<>>
    /\ conn = [c \in Connections |-> Idle]
    /\ page = NoPage
    /\ reading = NotReading
    /\ fetching = NotFetching

NextHistory ==
    \/ \E round_num \in 1..3, form \in HistoryForms : admin_results(round_num, form)
    \/ \E round_num \in {2, 3} : DeleteRound(round_num)

SpecHistory == InitHistory /\ [][NextHistory]_vars

(***************************************************************************)
(* The ranking query's points, applied to a rider's results of rounds 1 and *)
(* 2 with the positions handed in, for a pick of round 3.                   *)
(***************************************************************************)
\* the ranking query run for round 3: the CASE expression of each of the two rows
\* and the rider's SUM
RankingQuery ==
    /\ points = <<>>
    /\ points' = << case_points(position[1]), case_points(position[2]),
                    rider_points(results, "Jett Lawrence", 3) >>
    /\ UNCHANGED <<page, reading, fetching>>
    /\ UNCHANGED <<riders, clock, users, schedule, picks, results, user_round_points,
                   leaderboard_totals, leaderboard_metadata, flash, position, conn>>

InitQuery ==
    /\ riders = RiderTable
    /\ clock = 0
    /\ users = {}
    /\ schedule = {ScheduleRow(r) : r \in 1..3}
    /\ picks = EmptyBag
    /\ position \in {<<p, q>> : p \in 0..MaxPos, q \in {0, 1, 4, 5, 20, 21, 22, MaxPos}}
    /\ results = SetToBag({ ResultRow(1, "450", "Jett Lawrence", position[1]),
                            ResultRow(2, "450", "Jett Lawrence", position[2]) })
    /\ user_round_points = {}
    /\ leaderboard_totals = {}
    /\ leaderboard_metadata = {}
    /\ flash = ""
    /\ points = <<>>
    /\ conn = [c \in Connections |-> Idle]
    /\ page = NoPage
    /\ reading = NotReading
    /\ fetching = NotFetching

NextQuery == RankingQuery

SpecQuery == InitQuery /\ [][NextQuery]_vars

(***************************************************************************)
(* Properties of the pick flow.                                            *)
(***************************************************************************)
\* user_id holds rider in class cls for round round_num
Holds(user_id, round_num, cls, rider) ==
    \E row \in Rows(picks) : /\ row.user_id = user_id /\ row.round_num = round_num
                             /\ row.class = cls /\ row.rider = rider

\* the roster a round offers: active 450 riders; active 250 riders of the round's division(s)
Eligible450 == {r.name : r \in {x \in riders : x.active /\ x.class = "450"}}

Eligible250(round_num) ==
    {r.name : r \in {x \in riders :
        /\ x.active
        /\ \E s \in schedule :
              /\ s.round = round_num
              /\ \/ s.class_250 = "West" /\ x.class = "250_West"
                 \/ s.class_250 = "East" /\ x.class = "250_East"
                 \/ s.class_250 = "Combined" /\ x.class \in {"250_West", "250_East"}}}

Open(round_num) == \E s \in schedule : s.round = round_num /\ ~(clock > s.race_date)

Locked(round_num) == \E s \in schedule : s.round = round_num /\ clock > s.race_date

RepeatErrors == {"Cannot pick the same 450 rider within 3 rounds",
                 "Cannot pick the same 250 rider within 3 rounds"}

\* C1: a submission in time with both riders eligible, naming a rider the user holds
\* in the same class in a round 1 or 2 away, is rejected with the repeat-rule error and
\* leaves picks unchanged; with no such pick (a pick 3 rounds away does not count) it
\* is saved
RepeatRuleBoundary ==
    \A user_id \in Players, round_num \in 1..MaxRound,
       rider_450 \in Form450, rider_250 \in Form250 :
       ( /\ user_id \in {u.id : u \in users}
         /\ Open(round_num)
         /\ rider_450 \in Eligible450 /\ rider_250 \in Eligible250(round_num) )
       => \A outcome \in pick_outcomes(user_id, round_num, "POST", rider_450, rider_250) :
             IF \E other \in 1..(MaxRound + 2) :
                   /\ other # round_num
                   /\ other - round_num \in -2..2
                   /\ \/ Holds(user_id, other, "450", rider_450)
                      \/ Holds(user_id, other, "250", rider_250)
             THEN outcome.flash \in RepeatErrors /\ outcome.picks = picks
             ELSE /\ outcome.flash = "Picks saved successfully!"
                  /\ PickRow(user_id, round_num, "450", rider_450, 0) \in Rows(outcome.picks)
                  /\ PickRow(user_id, round_num, "250", rider_250, 0) \in Rows(outcome.picks)

\* a repeat was just rejected for a user who holds one rider in rounds N and N+3
RepeatRuleBoundaryWitness ==
    /\ flash \in RepeatErrors
    /\ \E user_id \in Players, round_num \in 1..MaxRound :
          /\ Holds(user_id, round_num, "450", "Jett Lawrence")
          /\ Holds(user_id, round_num + 3, "450", "Jett Lawrence")

\* C2: a submission after the round's deadline creates, replaces or deletes no pick
\* row, whether or not the user holds picks for the round
DeadlinePassedNoWrite ==
    [][\A user_id \in Players, round_num \in 1..MaxRound,
          rider_450 \in Form450, rider_250 \in Form250 :
          (Locked(round_num) /\ SubmitPick(user_id, round_num, rider_450, rider_250))
          => picks' = picks]_vars

\* C3: a submission with an empty rider, or one outside the round's roster of its
\* class, leaves picks unchanged
InvalidRiderNoWrite ==
    [][\A user_id \in Players, round_num \in 1..MaxRound,
          rider_450 \in Form450, rider_250 \in Form250 :
          ( /\ \E s \in schedule : s.round = round_num
            /\ \/ rider_450 = "" \/ rider_250 = ""
               \/ rider_450 \notin Eligible450
               \/ rider_250 \notin Eligible250(round_num)
            /\ SubmitPick(user_id, round_num, rider_450, rider_250) )
          => picks' = picks]_vars

\* C4: every (user, round) has no pick row, or exactly two: one of class 450 and one
\* of class 250
PairOrNothing ==
    \A user_id \in 1..3, round_num \in 1..MaxRound :
        LET rows == {row \in Rows(picks) :
                        row.user_id = user_id /\ row.round_num = round_num}
        IN  \/ rows = {}
            \/ /\ CountRows(picks, rows) = 2
               /\ {row.class : row \in rows} = {"450", "250"}

\* after a round was deleted, a submission was saved while an auto-picked pair and a
\* submitted pair are stored
PairOrNothingWitness ==
    /\ flash = "Picks saved successfully!"
    /\ Cardinality(schedule) < MaxRound
    /\ \E row \in Rows(picks) : row.auto_random = 1
    /\ \E row \in Rows(picks) : row.auto_random = 0

\* C6: right after a saved submission get_existing_picks returns the submitted pair,
\* both with auto_random = 0, and nothing else
SavedPicksReadBack ==
    \A user_id \in Players, round_num \in 1..MaxRound,
       rider_450 \in Form450, rider_250 \in Form250 :
       \A outcome \in pick_outcomes(user_id, round_num, "POST", rider_450, rider_250) :
          outcome.flash = "Picks saved successfully!"
          => get_existing_picks(outcome.picks, user_id, round_num)
                = { [cls \in {"450", "250"} |->
                        IF cls = "450" THEN <<rider_450, 0>> ELSE <<rider_250, 0>>] }

\* a submission was saved over an earlier pair of the same round: both riders of the
\* stored pair differ from the round-2 pair bob can have started with
SavedPicksReadBackWitness ==
    /\ flash = "Picks saved successfully!"
    /\ \E user_id \in Players, round_num \in 1..MaxRound :
          get_existing_picks(picks, user_id, round_num)
              = { [cls \in {"450", "250"} |->
                      IF cls = "450" THEN <<"Eli Tomac", 0>> ELSE <<"Tom Vialle", 0>>] }

(***************************************************************************)
(* Properties of scoring.                                                  *)
(***************************************************************************)
\* C7: the scoring function gives 25, 22, 20, 18 for positions 1 to 4, 22 - position
\* for positions 5 to 20 and 0 above 20 (so 25 for 1, 18 for 4, 17 for 5, 2 for 20,
\* 0 for 21 and for 100); over positions from 1 on it never grows with the position,
\* and it is never negative.
ScoringTable ==
    points # <<>> =>
        LET p == position[1]
            q == position[2]
        IN  /\ Len(points) = Len(position)
            /\ p = 1 => points[1] = 25
            /\ p = 2 => points[1] = 22
            /\ p = 3 => points[1] = 20
            /\ p = 4 => points[1] = 18
            /\ (p >= 5 /\ p <= 20) => points[1] = 22 - p
            /\ p > 20 => points[1] = 0
            /\ p = 5 => points[1] = 17
            /\ p = 20 => points[1] = 2
            /\ p = 21 => points[1] = 0
            /\ p = 100 => points[1] = 0
            /\ (1 <= p /\ p <= q) => points[1] >= points[2]
            /\ points[1] >= 0 /\ points[2] >= 0

ScoringTableWitness ==
    /\ position = <<20, 21>>
    /\ points = <<2, 0>>

(***************************************************************************)
(* Properties of the leaderboard cache.                                    *)
(***************************************************************************)
\* no two pick rows for one (user, round, class), no two results for one
\* (round, class, rider), no two schedule rows for one round
UniqueKeys ==
    /\ \A row \in Rows(picks) : picks[row] = 1
    /\ \A a, b \in Rows(picks) :
          (a.user_id = b.user_id /\ a.round_num = b.round_num /\ a.class = b.class) => a = b
    /\ \A row \in Rows(results) : results[row] = 1
    /\ \A a, b \in Rows(results) :
          (a.round_num = b.round_num /\ a.class = b.class /\ a.rider = b.rider) => a = b
    /\ \A a, b \in schedule : a.round = b.round => a = b

\* what one pick earns: the points of its rider's position in that round and class
PickPoints(row) ==
    LET found == {r \in Rows(results) : /\ r.round_num = row.round_num
                                        /\ r.class = row.class
                                        /\ r.rider = row.rider}
    IN  IF found = {} THEN 0 ELSE get_points((CHOOSE r \in found : TRUE).position)

RECURSIVE PointsOfPicks(_)
PointsOfPicks(rows) ==
    IF rows = {} THEN 0
    ELSE LET row == CHOOSE r \in rows : TRUE
         IN  PickPoints(row) + PointsOfPicks(rows \ {row})

\* the picks of a user in rounds locked before now, of one race type or of all
LockedPicks(user_id, view_type) ==
    { row \in Rows(picks) :
        /\ row.user_id = user_id
        /\ \E s \in schedule : /\ s.round = row.round_num
                               /\ s.race_date < clock
                               /\ view_type \in {"overall", s.race_type} }

TotalOf(totals, user_id, view_type) ==
    {t.total_points : t \in {x \in totals : x.user_id = user_id /\ x.view_type = view_type}}

\* C8: after a recalculation every user's overall total is the sum of the points of
\* that user's picks in visible rounds (0 for a pick without result), each race-type
\* total is that sum over the rounds of the type, and overall is the sum of the three.
TotalsAreSumOfPoints ==
    UniqueKeys =>
        \A cache \in recalculate_leaderboard : \A u \in users :
            /\ \A view_type \in {"overall", "supercross", "motocross", "SMX"} :
                  TotalOf(cache.leaderboard_totals, u.id, view_type)
                      = {PointsOfPicks(LockedPicks(u.id, view_type))}
            /\ LET total(view_type) ==
                        CHOOSE x \in TotalOf(cache.leaderboard_totals, u.id, view_type) : TRUE
                IN  total("overall") = total("supercross") + total("motocross") + total("SMX")

\* alice's picks of round 1 finished 1st and 3rd, nobody else scored: 45 and rank 1
TotalsAreSumOfPointsWitness ==
    /\ flash = "Leaderboard recalculated successfully!"
    /\ \E a, b \in Rows(results) :
          /\ a.round_num = 1 /\ a.position = 1 /\ b.round_num = 1 /\ b.position = 3
          /\ PickRow(3, 1, "450", a.rider, 0) \in Rows(picks)
          /\ PickRow(3, 1, "250", b.rider, 0) \in Rows(picks)
    /\ \E t \in leaderboard_totals :
          /\ t.user_id = 3 /\ t.view_type = "overall"
          /\ t.total_points = 45 /\ t.rank = 1
    /\ \A t \in leaderboard_totals : t.user_id # 3 => t.total_points = 0

RECURSIVE SumOfCachedPoints(_)
SumOfCachedPoints(rows) ==
    IF rows = {} THEN 0
    ELSE LET row == CHOOSE r \in rows : TRUE
         IN  row.points + SumOfCachedPoints(rows \ {row})

\* C9: a recalculation at instant T caches per-round rows only for rounds whose
\* deadline is strictly before T, and every total is made of the points of such
\* rows only.
OnlyLockedRoundsCached ==
    UniqueKeys =>
        \A cache \in recalculate_leaderboard :
            /\ \A row \in cache.user_round_points :
                  \E s \in schedule : s.round = row.round_num /\ s.race_date < clock
            /\ \A t \in cache.leaderboard_totals :
                  t.total_points =
                      SumOfCachedPoints({row \in cache.user_round_points :
                                            /\ row.user_id = t.user_id
                                            /\ t.view_type \in {"overall", row.race_type}})

\* a recalculation at the very deadline of a round that has a pick with a scoring result
OnlyLockedRoundsCachedWitness ==
    /\ flash = "Leaderboard recalculated successfully!"
    /\ leaderboard_metadata = {[key |-> "last_recalculated", value |-> clock]}
    /\ user_round_points # {}
    /\ \E row \in Rows(picks), s \in schedule :
          /\ s.round = row.round_num
          /\ s.race_date = clock
          /\ PickPoints(row) > 0
          /\ \A cached \in user_round_points : cached.round_num # s.round

\* C10: after a recalculation the ranks of each view are exactly 1..N for the N
\* users, a higher total has a smaller rank, and equal totals rank by ascending
\* username.
RanksDenseAndOrdered ==
    \A cache \in recalculate_leaderboard :
        \A view_type \in {"overall", "supercross", "motocross", "SMX"} :
            LET rows == {t \in cache.leaderboard_totals : t.view_type = view_type}
            IN  /\ {t.rank : t \in rows} = 1..Cardinality(users)
                /\ Cardinality(rows) = Cardinality(users)
                /\ {t.user_id : t \in rows} = {u.id : u \in users}
                /\ \A a, b \in rows :
                      /\ a.total_points > b.total_points => a.rank < b.rank
                      /\ (/\ a.total_points = b.total_points
                          /\ UsernameRank(a.username) < UsernameRank(b.username))
                         => a.rank < b.rank

\* two users tied on a positive total ahead of a third
RanksDenseAndOrderedWitness ==
    /\ flash = "Leaderboard recalculated successfully!"
    /\ \E a, b, c \in leaderboard_totals :
          /\ a.view_type = "overall" /\ b.view_type = "overall" /\ c.view_type = "overall"
          /\ a.username = "alice" /\ b.username = "bob"
          /\ a.total_points = b.total_points /\ a.total_points > c.total_points
          /\ c.total_points > 0 - 1
          /\ a.rank = 1 /\ b.rank = 2 /\ c.rank = 3

(***************************************************************************)
(* Properties of overlapping requests.                                     *)
(***************************************************************************)
\* C5: at most one pick row per (user, round, class) in every reachable state, also
\* when two submissions of one user for one round overlap, or a lazy auto-pick
\* overlaps the sweep.
OnePickPerClass ==
    /\ \A row \in Rows(picks) : picks[row] = 1
    /\ \A a, b \in Rows(picks) :
          (a.user_id = b.user_id /\ a.round_num = b.round_num /\ a.class = b.class) => a = b

(***************************************************************************)
(* Properties of repeated recalculation.                                   *)
(***************************************************************************)
\* the cache was written by a recalculation at this very instant, the last request
CacheFresh ==
    /\ flash = "Leaderboard recalculated successfully!"
    /\ leaderboard_metadata = {[key |-> "last_recalculated", value |-> clock]}

\* C11: a recalculation run right after a recalculation, with users, schedule, picks
\* and results unchanged, leaves the same per-round rows, totals and ranks.
RecalculationIdempotent ==
    CacheFresh =>
        \A cache \in recalculate_leaderboard :
            /\ cache.user_round_points = user_round_points
            /\ cache.leaderboard_totals = leaderboard_totals

\* a fresh cache in which somebody has points
RecalculationIdempotentWitness ==
    /\ CacheFresh
    /\ \E row \in user_round_points : row.points > 0
    /\ \E t \in leaderboard_totals : t.total_points > 0 /\ t.rank = 1

(***************************************************************************)
(* Properties of the cache against the tables it is derived from.          *)
(***************************************************************************)
\* the row belongs to a user and a locked round that exist, shows a pick the user
\* holds (or none), and carries the position and points of the result as it is now
DerivedFromTables(row) ==
    /\ \E u \in users : u.id = row.user_id /\ u.username = row.username
    /\ \E s \in schedule : /\ s.round = row.round_num
                            /\ s.race_date < clock
                            /\ s.race_type = row.race_type
    /\ IF row.rider = None
       THEN /\ \A p \in Rows(picks) : ~(/\ p.user_id = row.user_id
                                         /\ p.round_num = row.round_num
                                         /\ p.class = row.class)
            /\ row.points = 0
       ELSE /\ \E p \in Rows(picks) : /\ p.user_id = row.user_id
                                       /\ p.round_num = row.round_num
                                       /\ p.class = row.class
                                       /\ p.rider = row.rider
            /\ LET found == {r \in Rows(results) : /\ r.round_num = row.round_num
                                                   /\ r.class = row.class
                                                   /\ r.rider = row.rider}
               IN  IF found = {} THEN row.points = 0 /\ row.position = NullPosition
                   ELSE \E r \in found : /\ row.position = r.position
                                         /\ row.points = get_points(r.position)

\* C12: what a recalculation leaves in the cache is derived from the users, schedule,
\* picks, results and clock of that instant alone: no row of a user or round that no
\* longer exists, no points of a result since corrected, whatever the cache held.
CacheRebuiltFromScratch ==
    \A cache \in recalculate_leaderboard :
        /\ \A row \in cache.user_round_points : DerivedFromTables(row)
        /\ \A t \in cache.leaderboard_totals :
              /\ \E u \in users : u.id = t.user_id /\ u.username = t.username
              /\ t.total_points =
                    SumOfCachedPoints({row \in cache.user_round_points :
                                          /\ row.user_id = t.user_id
                                          /\ t.view_type \in {"overall", row.race_type}})
        /\ cache.leaderboard_metadata = {[key |-> "last_recalculated", value |-> clock]}

\* a recalculation after alice was deleted: only bob is on the board, with the 22
\* points of his rider's second place
CacheRebuiltFromScratchWitness ==
    /\ CacheFresh
    /\ ~\E u \in users : u.id = 3
    /\ \E row \in user_round_points : row.user_id = 2 /\ row.position = 2 /\ row.points = 22
    /\ \A row \in user_round_points : row.user_id = 2
    /\ \A t \in leaderboard_totals : t.user_id = 2 /\ t.rank = 1

\* what pick submissions, lazy auto-picks, sweeps, result entry and result import flash
WriteFlashes ==
    { "Picks saved successfully!", "No picks submitted - smart auto-picks assigned",
      "Auto-picks assigned", "Manual results saved", "Auto-fetch completed",
      "Must select one rider from each class", "Invalid rider",
      "Cannot pick the same 450 rider within 3 rounds",
      "Cannot pick the same 250 rider within 3 rounds",
      "Deadline has not passed yet. Cannot assign auto-picks.",
      "Duplicate position", "No results found",
      "No positions were entered. Fill in at least one position to save." }

\* C13: pick submission, lazy auto-pick, sweep, result entry and result import leave
\* the cached rows, totals and ranks and the last-recalculated marker as they were.
WritesLeaveCacheAlone ==
    [][ (flash' \in WriteFlashes \/ picks' # picks \/ results' # results)
        /\ schedule' = schedule /\ users' = users
        => UNCHANGED <<user_round_points, leaderboard_totals, leaderboard_metadata>> ]_vars

\* results were saved after a recalculation: the board still shows the old totals,
\* which a recalculation would now change
WritesLeaveCacheAloneWitness ==
    /\ flash \in {"Manual results saved", "Auto-fetch completed"}
    /\ leaderboard_metadata # {}
    /\ \E t \in leaderboard_totals : t.total_points > 0
    /\ \E cache \in recalculate_leaderboard : cache.leaderboard_totals # leaderboard_totals

(***************************************************************************)
(* Properties of result entry.                                             *)
(***************************************************************************)
\* every way of filling the position fields of the riders on the form of round_num
FormsOf(round_num) ==
    LET on_form == get_riders_by_class("450") \cup get_available_250_riders(round_num)
    IN  { [name \in {r.name : r \in riders} |-> IF name \in on_form THEN filled[name] ELSE ""] :
              filled \in [on_form -> FormPositions] }

\* the batch gives one position to two riders of one class
BatchCollides(round_num, form) ==
    \E cls \in {"450", "250"} :
        LET class_riders == IF cls = "450" THEN get_riders_by_class("450")
                            ELSE get_available_250_riders(round_num)
        IN  \E a, b \in class_riders :
                /\ a # b
                /\ form[a] \in {"1", "2"}
                /\ form[a] = form[b]

\* C14: a batch of results that gives the same position to two riders of one class
\* is rejected with the duplicate-position error, and the results table stays as it
\* was, rows of the other class included.
DuplicateBatchRejected ==
    \A s \in schedule : \A form \in FormsOf(s.round) :
        BatchCollides(s.round, form) =>
            \A outcome \in admin_results_outcomes(s.round, form) :
                /\ outcome.flash = "Duplicate position"
                /\ outcome.results = results

\* the sheet with the tie was posted over results already entered, which stand
DuplicateBatchRejectedWitness ==
    /\ flash = "Duplicate position"
    /\ \E a, b \in Rows(results) : a.round_num = 1 /\ b.round_num = 1 /\ a.position # b.position
    /\ \A a, b \in Rows(results) :
          (a.round_num = b.round_num /\ a.class = b.class /\ a.position = b.position) => a = b

\* C15: in every reachable state of the results table no two different riders of one
\* (round, class) hold the same position, whatever results were entered or imported.
PositionsUnique ==
    \A a, b \in Rows(results) :
        (a.round_num = b.round_num /\ a.class = b.class /\ a.position = b.position)
        => a.rider = b.rider

(***************************************************************************)
(* Properties of picks after the deadline.                                 *)
(***************************************************************************)
\* the pick rows of (user_id, round_num), each with the number of its copies
HeldPicks(user_id, round_num) ==
    [row \in PickRows(user_id, round_num) |-> picks[row]]

\* C16: once a round's deadline has passed, the picks a user holds for it stay as
\* they are under every request, as long as the round and the user exist.
PicksFrozenAfterDeadline ==
    [][ \A u \in users, s \in schedule :
            (/\ u \in users' /\ s \in schedule'
             /\ clock > s.race_date
             /\ PickRows(u.id, s.round) # {})
            => HeldPicks(u.id, s.round)' = HeldPicks(u.id, s.round) ]_vars

\* the sweep of round 1 has served the admin while bob held the picks he had submitted
PicksFrozenAfterDeadlineWitness ==
    /\ Locked(1)
    /\ flash = "Auto-picks assigned"
    /\ \E row \in PickRows(2, 1) : row.auto_random = 0
    /\ \E row \in PickRows(1, 1) : row.auto_random = 1


\* the riders of a class that may be picked for a round
EligibleRoster(cls, round_num) ==
    IF cls = "450" THEN Eligible450 ELSE Eligible250(round_num)

\* C17: an auto-pick sweep of a locked round gives every user without picks for the
\* round a rider in each class that has an eligible rider outside the user's window
\* (and so in each class whose eligible roster is non-empty at all)
AutoPickAlwaysAssigns ==
    \A s \in schedule :
        Locked(s.round) =>
            \A writes \in admin_assign_autopicks_writes(s.round) :
                \A user_id \in UsersWithoutPicks(s.round), cls \in Range(CLASSES) :
                    EligibleRoster(cls, s.round)
                        \ PickedRiders(user_id, cls, nearby_rounds(s.round)) # {}
                    => \E row \in DOMAIN writes.inserted :
                           /\ row.user_id = user_id
                           /\ row.round_num = s.round
                           /\ row.class = cls


\* the riders a user may not be given for a round: those held in the same class in
\* the rounds around it
Window(user_id, cls, round_num) == PickedRiders(user_id, cls, nearby_rounds(round_num))

\* C18: with the results, the roster and the excluded riders fixed, the candidate
\* pool of a class is one set whatever run computes it, and every rider a run can
\* choose is in that pool, eligible for the round and not excluded
CandidatePoolFixed ==
    \A s \in schedule, u \in users, cls \in Range(CLASSES) :
        LET pools == get_top_riders_by_points(cls, s.round, Window(u.id, cls, s.round))
        IN  Locked(s.round) =>
            /\ \A p, q \in pools : Range(p) = Range(q)
            /\ \A p \in pools :
                   Range(p) \subseteq EligibleRoster(cls, s.round) \ Window(u.id, cls, s.round)


\* C19: every row a sweep of a locked round inserts is flagged auto_random, and its
\* rider is held by that user, in that class, in none of the rounds target-2,
\* target-1, target+1, target+2 at the time of the sweep
SweepPicksFlaggedOutsideWindow ==
    \A s \in schedule :
        Locked(s.round) =>
            \A writes \in admin_assign_autopicks_writes(s.round) :
                \A row \in DOMAIN writes.inserted :
                    /\ row.auto_random = 1
                    /\ row.round_num = s.round
                    /\ \A r \in {s.round - 2, s.round - 1, s.round + 1, s.round + 2} :
                           ~Holds(row.user_id, r, row.class, row.rider)

\* a sweep of round 1 has run while bob held Jett Lawrence for round 2: he was given
\* Eli Tomac, flagged
SweepPicksFlaggedOutsideWindowWitness ==
    /\ flash = "Auto-picks assigned"
    /\ Locked(1)
    /\ Holds(2, 2, "450", "Jett Lawrence")
    /\ PickRow(2, 1, "450", "Eli Tomac", 1) \in Rows(picks)
    /\ PickRow(2, 2, "450", "Jett Lawrence", 0) \in Rows(picks)


\* the picks table with the auto_random flag of the rows in `flipped` inverted
FlagsFlipped(table, flipped) ==
    LET flip(row) == IF row \in flipped THEN [row EXCEPT !.auto_random = 1 - @] ELSE row
    IN  [ row \in {flip(x) : x \in Rows(table)} |->
              CountRows(table, {x \in Rows(table) : flip(x) = row}) ]

\* what a cache says about scoring: the per-round rows without their flag, the
\* totals with their ranks
Scoring(cache) ==
    [ user_round_points  |-> { [ user_id |-> row.user_id, round_num |-> row.round_num,
                                 class |-> row.class, rider |-> row.rider,
                                 position |-> row.position, points |-> row.points ] :
                               row \in cache.user_round_points },
      leaderboard_totals |-> cache.leaderboard_totals ]

\* the sets of pick rows whose flags are inverted together: the picks of any set of
\* users, the picks for any set of rounds, and any single pick
FlagFlips ==
    { {row \in Rows(picks) : row.user_id \in ids} : ids \in SUBSET {u.id : u \in users} }
    \cup { {row \in Rows(picks) : row.round_num \in rounds} :
               rounds \in SUBSET {s.round : s \in schedule} }
    \cup { {row} : row \in Rows(picks) }

\* C20: a recalculation over the picks with the flags of such a set inverted gives
\* the same points for every (user, round, class), the same totals and the same
\* ranks as one over the picks as they are; the cached flag is the pick's flag
FlagAffectsNoScoring ==
    LET scoring == {Scoring(cache) : cache \in recalculate_leaderboard}
    IN  \A flipped \in FlagFlips :
            LET flagged == FlagsFlipped(picks, flipped)
                caches == recalculate_with(flagged)
            IN  /\ {Scoring(cache) : cache \in caches} = scoring
                /\ \A cache \in caches :
                       \A row \in cache.user_round_points :
                           row.rider # None =>
                               \E p \in Rows(flagged) :
                                   /\ p.user_id = row.user_id /\ p.round_num = row.round_num
                                   /\ p.class = row.class /\ p.rider = row.rider
                                   /\ row.auto_random = (p.auto_random # 0)

\* the board was recalculated with an auto-picked and a submitted pick both in the
\* points
FlagAffectsNoScoringWitness ==
    /\ CacheFresh
    /\ \E a, b \in user_round_points :
          /\ a.auto_random /\ a.points > 0
          /\ ~b.auto_random /\ b.points > 0


\* the rounds a view shows: deadline passed, of the view's race type
ShownRounds(view) ==
    {s.round : s \in {x \in schedule :
        clock > x.race_date /\ (view = "overall" \/ x.race_type = view)}}

\* what the cache tables hold for a view: the ranking, and per shown round, user and
\* class the cached initials, points and flag
CacheView(view) ==
    [ ranking |-> { <<t.rank, t.username, t.total_points>> :
                        t \in {x \in leaderboard_totals : x.view_type = view} },
      cells   |-> { <<t.username, row.round_num, row.class,
                      row.rider_initials, row.points, row.auto_random>> :
                        t \in {x \in leaderboard_totals : x.view_type = view},
                        row \in {x \in user_round_points :
                                    x.round_num \in ShownRounds(view)} } ]

\* the same, read off a page; cells without a cached row are left out
PageView(response) ==
    LET players == response.player_data
    IN  [ ranking |-> { <<players[i].rank, players[i].username, players[i].total>> :
                            i \in 1..Len(players) },
          cells   |-> UNION { ( { <<players[i].username, cell.round, "450",
                                          cell.c450.initials, cell.c450.points[1],
                                          cell.c450.random>> :
                                            cell \in {x \in Range(players[i].round_picks) :
                                                         x.c450.points # <<>>} }
                                      \cup
                                      { <<players[i].username, cell.round, "250",
                                          cell.c250.initials, cell.c250.points[1],
                                          cell.c250.random>> :
                                            cell \in {x \in Range(players[i].round_picks) :
                                                         x.c250.points # <<>>} } )
                              : i \in 1..Len(players) } ]

CacheBuilt == leaderboard_metadata # {}

\* C22: for every view, a read before the first recalculation returns the page in
\* its "not yet calculated" state, and a read after a recalculation returns the page
\* with a ranking
NotCalculatedIffNeverBuilt ==
    \A view \in Range(VIEW_TYPES) :
        LET response == leaderboard_response(view)
        IN  /\ response.status = "200"
            /\ response.cache_empty <=> ~CacheBuilt


CachedClasses(cache, user_id, round_num) ==
    { row.class : row \in { r \in cache.user_round_points :
                               /\ r.user_id = user_id /\ r.round_num = round_num
                               /\ r.rider # None } }

\* C24: a recalculation that runs while bob resubmits his round-1 pair reads both of
\* his picks for the round, never none and never one: the DELETE and the two
\* INSERTs of a resubmission show together
RecalculationSeesPair ==
    \A cache \in recalculate_leaderboard :
        1 \in Range(visible_rounds(clock))
        => CachedClasses(cache, 2, 1) = Range(CLASSES)

\* a recalculation has cached bob's pair while one of his resubmissions was open
RecalculationSeesPairWitness ==
    /\ \E c \in Connections : conn[c].active /\ conn[c].inserted # EmptyBag
    /\ leaderboard_metadata # {}
    /\ CachedClasses([user_round_points |-> user_round_points], 2, 1) = Range(CLASSES)

(***************************************************************************)
(* Properties of the result import.                                        *)
(***************************************************************************)
\* the import's transaction holds writes that are not committed
UncommittedWrites ==
    fetching.active /\ (fetching.deleted # EmptyBag \/ fetching.inserted # EmptyBag)

\* C25: the import sends no request to the results site while its transaction holds
\* uncommitted result writes: every turn of the class loop, which fetches the
\* class's page, starts with nothing written
FetchesBeforeWrites ==
    [][ (fetching.active /\ fetching'.active /\ fetching'.cls = fetching.cls + 1)
        => ~UncommittedWrites ]_vars

\* the import is about to end having found no result for either class
ImportFailed ==
    /\ fetching.active
    /\ fetching.cls > Len(CLASSES)
    /\ DOMAIN fetching.results_450 \cup DOMAIN fetching.results_250 = {}

\* C26: an import that finds nothing (event not found, no results URL, failed
\* request, no rider matched) leaves the results as they were and reports "No
\* results found", and a manual entry is saved afterwards
ImportFailureKeepsResults ==
    [][ (ImportFailed /\ ~fetching'.active)
        => /\ results' = results
           /\ flash' = "No results found"
           /\ \A form \in ImportForms :
                 \E outcome \in admin_results_outcomes(1, form)' :
                     outcome.flash = "Manual results saved" ]_vars

\* an import has failed with results in the store
ImportFailureKeepsResultsWitness ==
    /\ ~fetching.active
    /\ flash = "No results found"
    /\ results # EmptyBag

(***************************************************************************)
(* Properties of round deletion.                                           *)
(***************************************************************************)
\* the rows of table that belong to the rounds in rounds
OfRounds(table, rounds) == RowsBag(table, {row \in Rows(table) : row.round_num \in rounds})

\* C27: when the admin deletes a round, its results, its picks and its per-round
\* cache rows are gone and the round has left the schedule, while the results,
\* picks, cache rows and schedule rows of every other round are as before
RoundDeletionCascades ==
    [][ \A round_num \in 1..MaxRound :
            (get_round_info(round_num) # {} /\ get_round_info(round_num)' = {})
            => LET others == (1..MaxRound) \ {round_num}
               IN  /\ OfRounds(results', {round_num}) = EmptyBag
                   /\ OfRounds(picks', {round_num}) = EmptyBag
                   /\ {row \in user_round_points' : row.round_num = round_num} = {}
                   /\ OfRounds(results', others) = OfRounds(results, others)
                   /\ OfRounds(picks', others) = OfRounds(picks, others)
                   /\ {row \in user_round_points' : row.round_num # round_num}
                      = {row \in user_round_points : row.round_num # round_num}
                   /\ schedule' = {s \in schedule : s.round # round_num} ]_vars

\* round 1 was deleted after the cache was built, and round 2 keeps its rows
RoundDeletionCascadesWitness ==
    /\ get_round_info(1) = {}
    /\ flash = "Round deleted successfully (picks, results, and cache entries removed)!"
    /\ OfRounds(picks, {2}) # EmptyBag
    /\ {row \in user_round_points : row.round_num = 2} # {}

(***************************************************************************)
(* Properties of overlapping result entries.                               *)
(***************************************************************************)
\* C28: result entry replaces: every (round, class, rider) has at most one result
\* row, also when two admin sessions enter the same rider's position at once
OneRowPerResult ==
    \A row \in Rows(results) :
        /\ results[row] = 1
        /\ \A other \in Rows(results) :
              (/\ other.round_num = row.round_num /\ other.class = row.class
               /\ other.rider = row.rider) => other = row

(***************************************************************************)
(* Properties of stored positions.                                         *)
(***************************************************************************)
\* C29: every stored finishing position is at least 1, whether entered by hand or
\* imported
PositionsPositive == \A row \in Rows(results) : row.position >= 1

(***************************************************************************)
(* Properties of the "last recalculated" marker.                           *)
(***************************************************************************)
\* get_leaderboard_last_updated(): the marker row, {} when there is none
get_leaderboard_last_updated ==
    {m \in leaderboard_metadata : m.key = "last_recalculated"}

\* the marker a recalculation at the instant now_utc leaves
MarkerAt(now_utc) == {[key |-> "last_recalculated", value |-> now_utc]}

\* C30: there is no marker until the first recalculation; every recalculation
\* leaves exactly one marker entry, holding the instant of the recalculation; the
\* marker never moves backwards; only a recalculation changes it
MarkerTracksRecalculations ==
    /\ get_leaderboard_last_updated = {}
    /\ [][ /\ \A cache \in recalculate_leaderboard :
                 cache.leaderboard_metadata = MarkerAt(clock)
           /\ leaderboard_metadata' # leaderboard_metadata
              => /\ leaderboard_metadata' = MarkerAt(clock)
                 /\ flash' = "Leaderboard recalculated successfully!"
                 /\ \E cache \in recalculate_leaderboard :
                       /\ user_round_points' = cache.user_round_points
                       /\ leaderboard_totals' = cache.leaderboard_totals
                 /\ UNCHANGED <<clock, users, schedule, picks, results>>
           /\ \A old \in get_leaderboard_last_updated :
                 /\ get_leaderboard_last_updated' # {}
                 /\ \A new \in get_leaderboard_last_updated' : new.value >= old.value
       ]_vars

\* the marker of a recalculation at a later instant has replaced an earlier one's,
\* and results were entered since
MarkerTracksRecalculationsWitness ==
    /\ leaderboard_metadata = MarkerAt(1)
    /\ clock = 2
    /\ flash = "Manual results saved"

(***************************************************************************)
(* Properties of the cache's shape.                                        *)
(***************************************************************************)
\* the (user, round, class) of the per-round rows, the (user, view) of the totals
RoundKeys(rows) == {<<row.user_id, row.round_num, row.class>> : row \in rows}

TotalKeys(rows) == {<<row.user_id, row.view_type>> : row \in rows}

\* C31: after a recalculation the cache holds exactly one per-round row for every
\* registered user, visible round and class, picked or not, exactly one totals row
\* for every registered user and view, and no other rows
CacheCoversEveryUser ==
    \A cache \in recalculate_leaderboard :
        LET user_ids == {u.id : u \in users}
            visible == Range(visible_rounds(clock))
        IN  /\ RoundKeys(cache.user_round_points)
                  = user_ids \X visible \X Range(CLASSES)
            /\ Cardinality(cache.user_round_points)
                  = Cardinality(user_ids) * Cardinality(visible) * Len(CLASSES)
            /\ TotalKeys(cache.leaderboard_totals) = user_ids \X Range(VIEW_TYPES)
            /\ Cardinality(cache.leaderboard_totals)
                  = Cardinality(user_ids) * Len(VIEW_TYPES)

\* a fresh cache with the rows of a pick and of a round nobody picked for, after an
\* account was deleted
CacheCoversEveryUserWitness ==
    /\ CacheFresh
    /\ Cardinality(users) = 1
    /\ \E row \in user_round_points : row.rider = None
    /\ \E row \in user_round_points : row.rider # None

(***************************************************************************)
(* Properties of pending points.                                           *)
(***************************************************************************)
\* a result is entered for the pick's rider in its round and class
ResultEntered(row) ==
    \E r \in Rows(results) :
        r.round_num = row.round_num /\ r.class = row.class /\ r.rider = row.rider

\* what a page shows for a pick: its cells in the line of the pick's user
ShownFor(response, row) ==
    { IF row.class = "450" THEN cell.c450 ELSE cell.c250 :
        cell \in UNION { {c \in Range(response.player_data[i].round_picks) :
                             c.round = row.round_num} :
                         i \in {k \in 1..Len(response.player_data) :
                                  \E u \in users :
                                      /\ u.id = row.user_id
                                      /\ u.username = response.player_data[k].username} } }

\* C32: with the cache fresh, the leaderboard shows every pick of a visible round
\* with its rider's initials, the points as pending when no result is entered for
\* the rider, and as a number only when one is
PendingUntilResult ==
    (CacheFresh /\ UniqueKeys) =>
        \A view \in Range(VIEW_TYPES) :
            LET response == leaderboard_response(view)
            IN  /\ response.status = "200"
                /\ \A row \in Rows(picks) :
                      (/\ row.round_num \in ShownRounds(view)
                       /\ \E u \in users : u.id = row.user_id)
                      => /\ ShownFor(response, row) # {}
                         /\ \A shown \in ShownFor(response, row) :
                               /\ shown.initials = get_initials(row.rider)
                               /\ (shown.points = <<>>) <=> ~ResultEntered(row)

(***************************************************************************)
(* Properties of where auto-picks come from.                               *)
(***************************************************************************)
\* the flagged rows a step adds to picks
AutoPicksCreated ==
    {row \in Rows(picks') : /\ row.auto_random = 1
                            /\ picks'[row] > CopiesIn(row, picks)}

\* C33: a flagged pick is only ever added for a user who holds no pick for the round
\* and for a round whose deadline has passed; the step that adds it leaves the picks
\* of every user who held some for the round as they were; a sweep at or before the
\* deadline is refused and writes nothing
AutoPicksOnlyForMissing ==
    [][ /\ \A row \in AutoPicksCreated :
              /\ PickRows(row.user_id, row.round_num) = {}
              /\ Locked(row.round_num)
              /\ \A u \in users :
                    PickRows(u.id, row.round_num) # {}
                    => HeldPicks(u.id, row.round_num)' = HeldPicks(u.id, row.round_num)
        /\ \A s \in schedule :
              ~Locked(s.round)
              => admin_assign_autopicks_writes(s.round)
                 = {NoWrites("Deadline has not passed yet. Cannot assign auto-picks.")}
      ]_vars

\* bob, who had submitted for round 2, holds flagged picks for round 1, and the admin
\* account holds flagged picks for round 2
AutoPicksOnlyForMissingWitness ==
    /\ Locked(2)
    /\ \E row \in PickRows(2, 2) : row.auto_random = 0
    /\ \E row \in PickRows(2, 1) : row.auto_random = 1
    /\ \E row \in PickRows(1, 2) : row.auto_random = 1

(***************************************************************************)
(* Properties of the ranking's inputs.                                     *)
(***************************************************************************)
\* the riders a user may be barred from by the repeat rule
Exclusions == {{}, {"Jett Lawrence"}, {"Jett Lawrence", "Eli Tomac"}, {"Haiden Deegan"}}

\* C34: the ranking for round N is the ranking over the results of the rounds
\* before N alone, for both classes and whatever riders are excluded: results of
\* round N or of later rounds, added, changed or removed, do not move it
RankingUsesEarlierRounds ==
    \A s \in schedule : \A cls \in Range(CLASSES), exclude_riders \in Exclusions :
        get_top_riders_by_points(cls, s.round, exclude_riders)
        = get_top_riders_by_points_with(OfRounds(results, 1..(s.round - 1)),
                                        cls, s.round, exclude_riders)

\* round 1 went to Jett Lawrence and round 2 to Eli Tomac: the ranking for round 2
\* has Jett Lawrence first
RankingUsesEarlierRoundsWitness ==
    /\ [round_num |-> 1, class |-> "450", rider |-> "Jett Lawrence", position |-> 1]
          \in Rows(results)
    /\ [round_num |-> 1, class |-> "450", rider |-> "Eli Tomac", position |-> 0]
          \in Rows(results)
    /\ [round_num |-> 2, class |-> "450", rider |-> "Eli Tomac", position |-> 1]
          \in Rows(results)
    /\ get_top_riders_by_points("450", 2, {}) = {<<"Jett Lawrence">>}

(***************************************************************************)
(* Properties of the repeat rule over the season.                          *)
(***************************************************************************)
\* C35: whatever submissions, page loads after the deadline and sweeps have run, one
\* after the other and in whatever order of rounds, no user holds one rider in one
\* class for two rounds that are 1 or 2 apart
NoRepeatWithinWindow ==
    \A a, b \in Rows(picks) :
        (/\ a.user_id = b.user_id /\ a.class = b.class /\ a.rider = b.rider
         /\ a.round_num # b.round_num)
        => (a.round_num - b.round_num > 2 \/ b.round_num - a.round_num > 2)

\* bob submitted for rounds 2 and 4, was auto-picked for round 1 afterwards, and
\* holds Eli Tomac in rounds 1 and 4
NoRepeatWithinWindowWitness ==
    /\ PickRow(2, 2, "450", "Jett Lawrence", 0) \in Rows(picks)
    /\ PickRow(2, 4, "450", "Eli Tomac", 0) \in Rows(picks)
    /\ PickRow(2, 1, "450", "Eli Tomac", 1) \in Rows(picks)

(***************************************************************************)
(* Properties of the cache tables against each other.                      *)
(***************************************************************************)
\* C36: in every state each cached total is the sum of the points of the user's
\* cached per-round rows, all of them for the overall view and those of the race
\* type for the other views, also after a round was deleted
CacheSelfConsistent ==
    \A t \in leaderboard_totals :
        t.total_points =
            SumOfCachedPoints({row \in user_round_points :
                                  /\ row.user_id = t.user_id
                                  /\ t.view_type \in {"overall", row.race_type}})

(***************************************************************************)
(* Properties of the auto_random flag.                                     *)
(***************************************************************************)
\* the rows a step adds to picks
PicksCreated == {row \in Rows(picks') : picks'[row] > CopiesIn(row, picks)}

\* C37: a pick created with the flag is created after its round's deadline, a pick
\* created without it is created not after the deadline, and a pick that stays
\* keeps its flag
FlagRecordsOrigin ==
    [][ /\ \A row \in PicksCreated :
              IF row.auto_random = 1 THEN Locked(row.round_num) ELSE Open(row.round_num)
        /\ \A old \in Rows(picks), new \in Rows(picks') :
              (/\ old.user_id = new.user_id /\ old.round_num = new.round_num
               /\ old.class = new.class /\ old.rider = new.rider
               /\ new \notin PicksCreated)
              => new.auto_random = old.auto_random ]_vars

\* round 1 is locked; bob holds the picks he submitted for it and for the open round
\* 4, next to flagged picks for round 2, and the admin account holds flagged picks
FlagRecordsOriginWitness ==
    /\ Locked(2)
    /\ Open(4)
    /\ \E row \in PickRows(2, 1) : row.auto_random = 0
    /\ \E row \in PickRows(2, 4) : row.auto_random = 0
    /\ \E row \in PickRows(2, 2) : row.auto_random = 1
    /\ \E row \in PickRows(1, 1) : row.auto_random = 1

(***************************************************************************)
(* Properties of the reader's completion.                                  *)
(***************************************************************************)
\* C38: in every state and for every view the reader returns a page, with a ranking
\* or with the not-yet-calculated notice, and never fails; in particular when a
\* round's deadline has passed and the cache is built
ReaderCompletes ==
    \A view \in Range(VIEW_TYPES) :
        LET response == leaderboard_response(view)
        IN  /\ response.status = "200"
            /\ response.cache_empty \/ Len(response.player_data) > 0

(***************************************************************************)
(* Properties of the ranking query's points.                               *)
(***************************************************************************)
\* C39: the points the ranking query gives a result are get_points of its position,
\* for every position from 0 up, and the rider's sum over the earlier rounds is the
\* sum of get_points over the rider's results there
QueryPointsAgree ==
    points # <<>> =>
        /\ points[1] = get_points(position[1])
        /\ points[2] = get_points(position[2])
        /\ points[3] = get_points(position[1]) + get_points(position[2])

\* the query has scored a 20th and a 5th place: 2 and 17 points, 19 in sum
QueryPointsAgreeWitness ==
    /\ position = <<20, 5>>
    /\ points = <<2, 17, 19>>
====
